---- MODULE Spec2Model ----
(***************************************************************************)
(* Verification model of the table-finding core of pdfplumber_tablefinder. *)
(*                                                                         *)
(* Coordinates are integers in units of a fixed quantum (a tenth of a page *)
(* unit for the overlap engine, so that 1.2 is 12).  The edge-merging      *)
(* routines compute with them as floating-point numbers of MantBits bits;  *)
(* the other routines only compare them and add tolerances to values that  *)
(* stay exactly representable.  Python indices are kept 0-based wherever   *)
(* the program exposes them (overlap pairs, events); TLA+ sequences are    *)
(* 1-based, so element i of a Python list l is l[i+1].                     *)
(***************************************************************************)
EXTENDS Integers, Sequences, FiniteSets, TLC

VARIABLES
    \* ---- sweep-line overlap engine (one call of an overlap routine) ----
    ov_fn,            \* which routine runs: "pairs" | "table" | "none"
    bbox_list1,       \* first argument
    bbox_list2,       \* second argument
    bbox_events,      \* the sorted event list
    ev_i,             \* number of events already processed by the for loop
    bbox1_sweeping,   \* active boxes of the first list
    bbox2_sweeping,   \* active boxes of the second list
    overlap_list,     \* result under construction
    ov_pc             \* "loop" | "done" | "ValueError" | "AssertionError" | "idle"

ovVars == <<ov_fn, bbox_list1, bbox_list2, bbox_events, ev_i,
            bbox1_sweeping, bbox2_sweeping, overlap_list, ov_pc>>

VARIABLES
    \* ---- cells_to_tables (one call) ----
    cells,            \* list of {available, bbox, corners}
    tables,           \* closed tables: list of {corners, cells}
    current_table,    \* table under construction
    n_assigned,       \* number of cells assigned so far
    filtered,         \* returned list of tables (lists of cell bboxes)
    ct_pc             \* "loop" | "sort" | "done" | "idle"

ctVars == <<cells, tables, current_table, n_assigned, filtered, ct_pc>>

VARIABLES
    \* ---- edges_to_intersections followed by intersections_to_cells ----
    edges,            \* list of edges {orientation, x0, top, x1, bottom}
    x_tolerance,      \* intersection tolerance along x
    y_tolerance,      \* intersection tolerance along y
    intersections,    \* dict: vertex (x, y) -> {v: list, h: list}
    cell_list,        \* list of cell bboxes returned by intersections_to_cells
    ic_pc             \* "edges" | "intersections" | "done" | "idle"

icVars == <<edges, x_tolerance, y_tolerance, intersections, cell_list, ic_pc>>

VARIABLES
    \* ---- join_edge_group (one call) ----
    jg_edges,         \* argument edges
    jg_orientation,   \* argument orientation
    jg_tolerance,     \* argument tolerance
    sorted_edges,     \* the edges sorted by their start
    joined,           \* result under construction
    jg_i,             \* number of edges of sorted_edges[1:] already processed
    jg_pc             \* "start" | "loop" | "done" | "ValueError" | "IndexError" | "idle"

jgVars == <<jg_edges, jg_orientation, jg_tolerance, sorted_edges, joined, jg_i, jg_pc>>

VARIABLES
    \* ---- merge_edges (a call, then a call on its result) ----
    mg_edges,         \* argument edges of the first call
    snap_x_tolerance,
    snap_y_tolerance,
    join_x_tolerance,
    join_y_tolerance,
    snapped,          \* edges of the first call after its snapping step
    merged,           \* edges returned by the first call
    merged_again,     \* edges returned by the call on merged
    mg_pc             \* "start" | "merged" | "again" | "idle"

mgVars == <<mg_edges, snap_x_tolerance, snap_y_tolerance, join_x_tolerance,
            join_y_tolerance, snapped, merged, merged_again, mg_pc>>

VARIABLES
    \* ---- cluster_list (one call) ----
    cl_xs,            \* argument xs
    cl_tolerance,     \* argument tolerance
    cl_groups,        \* returned list of groups
    cl_pc             \* "start" | "done" | "idle"

clVars == <<cl_xs, cl_tolerance, cl_groups, cl_pc>>

VARIABLES
    \* ---- snap_objects (one call) ----
    sn_objs,          \* argument objs: a list of dicts
    sn_attr,          \* argument attr
    sn_tolerance,     \* argument tolerance
    sn_result,        \* returned list of objects
    sn_pc             \* "start" | "done" | "KeyError" | "idle"

snVars == <<sn_objs, sn_attr, sn_tolerance, sn_result, sn_pc>>

VARIABLES
    \* ---- TableFinder(page, settings) / TableFinder2(page, settings), then
    \* ---- rows and extract() of every table found ----
    tf_class,         \* "TableFinder" | "TableFinder2"
    tf_given,         \* whether the call passes a settings argument
    tf_arg,           \* the settings argument, when one is passed
    tf_page,          \* the page
    tf_assigned,      \* names of the attributes of self assigned so far
    tf_settings,      \* self.settings
    tf_edges,         \* self.edges
    tf_intersections, \* self.intersections
    tf_cells,         \* self.cells
    tf_cells_dev,     \* self.cells_dev
    tf_tables,        \* self.tables: list of {cells, bbox}
    tf_rows,          \* rows of every table of self.tables
    tf_extracted,     \* extract() of every table of self.tables
    tf_error,         \* what was raised: message or key
    tf_pc             \* the statement to execute next, "done", "rows",
                      \* "extracted", "ValueError", "KeyError" or "idle"

tfVars == <<tf_class, tf_given, tf_arg, tf_page, tf_assigned, tf_settings,
            tf_edges, tf_intersections, tf_cells, tf_cells_dev, tf_tables,
            tf_rows, tf_extracted, tf_error, tf_pc>>

VARIABLES
    \* ---- one call of a filter of table_filtering.py or of TableFinder2 ----
    fl_fn,            \* the filter called
    fl_page,          \* argument page
    fl_arg,           \* argument edges, cells or tables
    fl_ratio,         \* argument ratio, None when the call leaves it out
    fl_result,        \* returned list
    fl_pc             \* "start" | "done" | "idle"

flVars == <<fl_fn, fl_page, fl_arg, fl_ratio, fl_result, fl_pc>>

VARIABLES
    \* ---- obj_to_edges (one call) ----
    eg_obj,           \* argument: a rect or a line of a page
    eg_edges,         \* returned list of edges
    eg_pc             \* "start" | "done" | "idle"

egVars == <<eg_obj, eg_edges, eg_pc>>

VARIABLES
    \* ---- WordExtractor.iter_chars_to_words (one call) ----
    we_chars,         \* argument chars
    we_x_tolerance,   \* self.x_tolerance
    we_y_tolerance,   \* self.y_tolerance
    keep_blank_chars, \* self.keep_blank_chars
    we_i,             \* number of chars the for loop has processed
    current_word,     \* list of chars of the word under construction
    current_bbox,     \* its tracked bbox, or None
    we_words,         \* the words yielded so far
    we_pc             \* "loop" | "done" | "idle"

weVars == <<we_chars, we_x_tolerance, we_y_tolerance, keep_blank_chars, we_i,
            current_word, current_bbox, we_words, we_pc>>

vars == <<ovVars, ctVars, icVars, jgVars, mgVars, clVars, snVars, tfVars, flVars, egVars, weVars>>

\* what a step of one routine leaves alone: the state of the other routines
notOv == <<ctVars, icVars, jgVars, mgVars, clVars, snVars, tfVars, flVars,
          egVars, weVars>>
notCt == <<ovVars, icVars, jgVars, mgVars, clVars, snVars, tfVars, flVars,
          egVars, weVars>>
notIc == <<ovVars, ctVars, jgVars, mgVars, clVars, snVars, tfVars, flVars,
          egVars, weVars>>
notJg == <<ovVars, ctVars, icVars, mgVars, clVars, snVars, tfVars, flVars,
          egVars, weVars>>
notMg == <<ovVars, ctVars, icVars, jgVars, clVars, snVars, tfVars, flVars,
          egVars, weVars>>
notCl == <<ovVars, ctVars, icVars, jgVars, mgVars, snVars, tfVars, flVars,
          egVars, weVars>>
notSn == <<ovVars, ctVars, icVars, jgVars, mgVars, clVars, tfVars, flVars,
          egVars, weVars>>
notTf == <<ovVars, ctVars, icVars, jgVars, mgVars, clVars, snVars, flVars,
          egVars, weVars>>
notFl == <<ovVars, ctVars, icVars, jgVars, mgVars, clVars, snVars, tfVars,
          egVars, weVars>>
notEg == <<ovVars, ctVars, icVars, jgVars, mgVars, clVars, snVars, tfVars,
          flVars, weVars>>
notWe == <<ovVars, ctVars, icVars, jgVars, mgVars, clVars, snVars, tfVars,
          flVars, egVars>>

\* A routine that is not called in a specification stays in its idle state.
OverlapIdle ==
    /\ ov_fn = "none" /\ ov_pc = "idle" /\ ev_i = 0
    /\ bbox_list1 = <<>> /\ bbox_list2 = <<>> /\ bbox_events = <<>>
    /\ bbox1_sweeping = <<>> /\ bbox2_sweeping = <<>> /\ overlap_list = <<>>

TablesIdle ==
    /\ cells = <<>> /\ tables = <<>> /\ current_table = [corners |-> {}, cells |-> <<>>]
    /\ n_assigned = 0 /\ filtered = <<>> /\ ct_pc = "idle"

CellsIdle ==
    /\ edges = <<>> /\ x_tolerance = 0 /\ y_tolerance = 0
    /\ intersections = <<>> /\ cell_list = <<>> /\ ic_pc = "idle"

JoinIdle ==
    /\ jg_edges = <<>> /\ jg_orientation = "h" /\ jg_tolerance = 0
    /\ sorted_edges = <<>> /\ joined = <<>> /\ jg_i = 0 /\ jg_pc = "idle"

MergeIdle ==
    /\ mg_edges = <<>> /\ snap_x_tolerance = 0 /\ snap_y_tolerance = 0
    /\ join_x_tolerance = 0 /\ join_y_tolerance = 0
    /\ snapped = <<>> /\ merged = <<>> /\ merged_again = <<>> /\ mg_pc = "idle"

ClusterIdle ==
    /\ cl_xs = <<>> /\ cl_tolerance = 0 /\ cl_groups = <<>> /\ cl_pc = "idle"

SnapIdle ==
    /\ sn_objs = <<>> /\ sn_attr = "x0" /\ sn_tolerance = 0
    /\ sn_result = <<>> /\ sn_pc = "idle"

FinderIdle ==
    /\ tf_class = "none" /\ tf_given = FALSE /\ tf_arg = <<>> /\ tf_page = <<>>
    /\ tf_assigned = {} /\ tf_settings = <<>> /\ tf_edges = <<>>
    /\ tf_intersections = <<>> /\ tf_cells = <<>> /\ tf_cells_dev = <<>>
    /\ tf_tables = <<>> /\ tf_rows = <<>> /\ tf_extracted = <<>>
    /\ tf_error = "" /\ tf_pc = "idle"

FiltersIdle ==
    /\ fl_fn = "none" /\ fl_page = <<>> /\ fl_arg = <<>> /\ fl_ratio = <<>>
    /\ fl_result = <<>> /\ fl_pc = "idle"

ToEdgesIdle == eg_obj = <<>> /\ eg_edges = <<>> /\ eg_pc = "idle"

WordsIdle ==
    /\ we_chars = <<>> /\ we_x_tolerance = 0 /\ we_y_tolerance = 0
    /\ keep_blank_chars = FALSE /\ we_i = 0 /\ current_word = <<>>
    /\ current_bbox = <<>> /\ we_words = <<>> /\ we_pc = "idle"

\* the idle state of every routine but one
IdleButOverlap ==
    /\ TablesIdle /\ CellsIdle /\ JoinIdle /\ MergeIdle /\ ClusterIdle
    /\ SnapIdle /\ FinderIdle /\ FiltersIdle /\ ToEdgesIdle /\ WordsIdle
IdleButTables ==
    /\ OverlapIdle /\ CellsIdle /\ JoinIdle /\ MergeIdle /\ ClusterIdle
    /\ SnapIdle /\ FinderIdle /\ FiltersIdle /\ ToEdgesIdle /\ WordsIdle
IdleButCells ==
    /\ OverlapIdle /\ TablesIdle /\ JoinIdle /\ MergeIdle /\ ClusterIdle
    /\ SnapIdle /\ FinderIdle /\ FiltersIdle /\ ToEdgesIdle /\ WordsIdle
IdleButJoin ==
    /\ OverlapIdle /\ TablesIdle /\ CellsIdle /\ MergeIdle /\ ClusterIdle
    /\ SnapIdle /\ FinderIdle /\ FiltersIdle /\ ToEdgesIdle /\ WordsIdle
IdleButMerge ==
    /\ OverlapIdle /\ TablesIdle /\ CellsIdle /\ JoinIdle /\ ClusterIdle
    /\ SnapIdle /\ FinderIdle /\ FiltersIdle /\ ToEdgesIdle /\ WordsIdle
IdleButCluster ==
    /\ OverlapIdle /\ TablesIdle /\ CellsIdle /\ JoinIdle /\ MergeIdle
    /\ SnapIdle /\ FinderIdle /\ FiltersIdle /\ ToEdgesIdle /\ WordsIdle
IdleButSnap ==
    /\ OverlapIdle /\ TablesIdle /\ CellsIdle /\ JoinIdle /\ MergeIdle
    /\ ClusterIdle /\ FinderIdle /\ FiltersIdle /\ ToEdgesIdle /\ WordsIdle
IdleButFinder ==
    /\ OverlapIdle /\ TablesIdle /\ CellsIdle /\ JoinIdle /\ MergeIdle
    /\ ClusterIdle /\ SnapIdle /\ FiltersIdle /\ ToEdgesIdle /\ WordsIdle
IdleButFilters ==
    /\ OverlapIdle /\ TablesIdle /\ CellsIdle /\ JoinIdle /\ MergeIdle
    /\ ClusterIdle /\ SnapIdle /\ FinderIdle /\ ToEdgesIdle /\ WordsIdle
IdleButToEdges ==
    /\ OverlapIdle /\ TablesIdle /\ CellsIdle /\ JoinIdle /\ MergeIdle
    /\ ClusterIdle /\ SnapIdle /\ FinderIdle /\ FiltersIdle /\ WordsIdle
IdleButWords ==
    /\ OverlapIdle /\ TablesIdle /\ CellsIdle /\ JoinIdle /\ MergeIdle
    /\ ClusterIdle /\ SnapIdle /\ FinderIdle /\ FiltersIdle /\ ToEdgesIdle

(***************************************************************************)
(* Bounds of the explored inputs.                                          *)
(***************************************************************************)
MaxX == 2          \* x coordinates of generated bboxes range over 0..MaxX
MaxY == 1          \* y coordinates of generated bboxes range over 0..MaxY
MaxBoxes == 2      \* total number of bboxes in the two lists of one call
MaxCellX == 2      \* x coordinates of generated cells range over 0..MaxCellX
MaxCellY == 1      \* y coordinates of generated cells range over 0..MaxCellY
MaxCells == 3      \* number of generated cells in one cells_to_tables call
MaxEdgeX == 1      \* x coordinates of generated edges range over 0..MaxEdgeX
MaxEdgeY == 1      \* y coordinates of generated edges range over 0..MaxEdgeY
MaxEdges == 4      \* number of generated edges in one edges_to_intersections call
MaxSpan == 3       \* generated edges start and end in 0..MaxSpan
MaxGroup == 3      \* number of generated edges in one join_edge_group call
MaxJoinTol == 1    \* generated join tolerances range over 0..MaxJoinTol
MaxMergeEdges == 2 \* number of generated edges in one merge_edges call
MaxValue == 3      \* generated values of a cluster_list call range over 0..MaxValue
MaxValues == 3     \* number of generated values in one cluster_list call
MaxSnapObjs == 2   \* number of generated objects in one snap_objects call
MaxClusterTol == 2 \* generated cluster tolerances range over 0..MaxClusterTol
MantBits == 6      \* bits in the significand of a coordinate

(***************************************************************************)
(* Generic helpers.                                                        *)
(***************************************************************************)
Range(s) == {s[k] : k \in 1..Len(s)}

Count(s, e) == Cardinality({k \in 1..Len(s) : s[k] = e})

\* the sub-list of l made of the elements at the positions in I, from k on
RECURSIVE Pick(_, _, _)
Pick(l, I, k) ==
    IF k > Len(l) THEN <<>>
    ELSE (IF k \in I THEN <<l[k]>> ELSE <<>>) \o Pick(l, I, k + 1)

\* Bboxes (x0, top, x1, bottom) with x0 <= x1 and top <= bottom.
Bboxes == {b \in (0..MaxX) \X (0..MaxY) \X (0..MaxX) \X (0..MaxY) :
              b[1] <= b[3] /\ b[2] <= b[4]}

\* An edge is a record with the fields the routines read: orientation, the
\* bbox x0, top, x1, bottom, and width and height (rect_to_edges and
\* line_to_edge).  doctop, y0 and y1, which no routine of table.py reads,
\* are left out.
VEdge(x, t, b) ==
    [orientation |-> "v", x0 |-> x, top |-> t, x1 |-> x, bottom |-> b,
     width |-> 0, height |-> b - t]
HEdge(y, l, r) ==
    [orientation |-> "h", x0 |-> l, top |-> y, x1 |-> r, bottom |-> y,
     width |-> r - l, height |-> 0]

(***************************************************************************)
(* src/tests/overlap.py test1: the example lists, in tenths of a unit.     *)
(***************************************************************************)
ExampleList1 == << <<10, 20, 30, 40>>, <<30, 20, 40, 40>>,
                   <<40, 20, 60, 40>>, <<20, 40, 50, 90>> >>
ExampleList2 == << <<12, 22, 28, 38>>, <<60, 20, 80, 50>>,
                   <<80, 100, 100, 120>>, <<14, 24, 60, 38>> >>

\* One box against two boxes that enter the sweep in the reverse of their
\* list order.
ReorderList1 == << <<0, 0, 4, 4>> >>
ReorderList2 == << <<2, 0, 3, 1>>, <<1, 0, 3, 1>> >>

(***************************************************************************)
(* The event list of a call: two events per box, list 1 first, then a      *)
(* stable sort by (x, kind) with kind 0 = enter and 1 = exit.              *)
(***************************************************************************)
RECURSIVE BoxEvents(_, _, _)
BoxEvents(tag, l, i) ==
    IF i > Len(l) THEN <<>>
    ELSE << <<tag, l[i][1], i - 1, 0>>, <<tag, l[i][3], i - 1, 1>> >>
         \o BoxEvents(tag, l, i + 1)

EventKeyLeq(a, b) == a[2] < b[2] \/ (a[2] = b[2] /\ a[4] <= b[4])

\* list.sort(key=...) is stable: an element goes after every element whose
\* key is not greater than its own.
RECURSIVE SortEvents(_)
SortEvents(s) ==
    IF s = <<>> THEN <<>>
    ELSE LET r == SortEvents(SubSeq(s, 1, Len(s) - 1))
             e == s[Len(s)]
             k == Cardinality({j \in 1..Len(r) : EventKeyLeq(r[j], e)})
         IN  SubSeq(r, 1, k) \o <<e>> \o SubSeq(r, k + 1, Len(r))

MakeEvents(l1, l2) == SortEvents(BoxEvents("box1", l1, 1) \o BoxEvents("box2", l2, 1))

\* list.remove(x): drops the first element equal to x (x must be present).
RemoveFirst(s, x) ==
    LET k == CHOOSE j \in 1..Len(s) : s[j] = x /\ \A m \in 1..(j - 1) : s[m] # x
    IN  SubSeq(s, 1, k - 1) \o SubSeq(s, k + 1, Len(s))

CurEvent == bbox_events[ev_i + 1]

(***************************************************************************)
(* table_filtering_utils.get_overlapped_bboxes_pairs: active entries are   *)
(* (idx, x1, y1, x2, y2).  The product is only compared with 0, and a      *)
(* product of two non-zero coordinate differences is non-zero, so it is    *)
(* kept as an integer product.                                             *)
(***************************************************************************)
PairsEntry(l, idx) == <<idx, l[idx + 1][1], l[idx + 1][2], l[idx + 1][3], l[idx + 1][4]>>

\* variant of PairsHit that omits the product test on the x coordinates
PairsHit_NoProduct(e1, e2) ==
    /\ e2[3] < e1[5]
    /\ e2[5] > e1[3]

\* test of lines 206-210 / 224-228 on two active entries e1 (list 1), e2 (list 2)
PairsHit(e1, e2) ==
    /\ e2[3] < e1[5]
    /\ e2[5] > e1[3]
    /\ (e2[2] - e1[4]) * (e2[4] - e1[2]) # 0

PairsBox1Enter ==
    /\ ov_fn = "pairs" /\ ov_pc = "loop" /\ ev_i < Len(bbox_events)
    /\ CurEvent[1] = "box1" /\ CurEvent[4] = 0
    /\ LET me == PairsEntry(bbox_list1, CurEvent[3])
       IN  /\ bbox1_sweeping' = Append(bbox1_sweeping, me)
           /\ LET sel == SelectSeq(bbox2_sweeping, LAMBDA b2 : PairsHit(me, b2))
              IN  overlap_list' = overlap_list \o [k \in 1..Len(sel) |-> <<me[1], sel[k][1]>>]
    /\ ev_i' = ev_i + 1
    /\ UNCHANGED <<ov_fn, bbox_list1, bbox_list2, bbox_events, bbox2_sweeping, ov_pc>>
    /\ UNCHANGED notOv

PairsBox1Exit ==
    /\ ov_fn = "pairs" /\ ov_pc = "loop" /\ ev_i < Len(bbox_events)
    /\ CurEvent[1] = "box1" /\ CurEvent[4] = 1
    /\ LET me == PairsEntry(bbox_list1, CurEvent[3])
       IN  IF me \in Range(bbox1_sweeping)
           THEN /\ bbox1_sweeping' = RemoveFirst(bbox1_sweeping, me)
                /\ ev_i' = ev_i + 1
                /\ UNCHANGED ov_pc
           ELSE /\ ov_pc' = "ValueError"
                /\ UNCHANGED <<bbox1_sweeping, ev_i>>
    /\ UNCHANGED <<ov_fn, bbox_list1, bbox_list2, bbox_events, bbox2_sweeping, overlap_list>>
    /\ UNCHANGED notOv

PairsBox2Enter ==
    /\ ov_fn = "pairs" /\ ov_pc = "loop" /\ ev_i < Len(bbox_events)
    /\ CurEvent[1] = "box2" /\ CurEvent[4] = 0
    /\ LET me == PairsEntry(bbox_list2, CurEvent[3])
       IN  /\ bbox2_sweeping' = Append(bbox2_sweeping, me)
           /\ LET sel == SelectSeq(bbox1_sweeping, LAMBDA b1 : PairsHit(b1, me))
              IN  overlap_list' = overlap_list \o [k \in 1..Len(sel) |-> <<sel[k][1], me[1]>>]
    /\ ev_i' = ev_i + 1
    /\ UNCHANGED <<ov_fn, bbox_list1, bbox_list2, bbox_events, bbox1_sweeping, ov_pc>>
    /\ UNCHANGED notOv

PairsBox2Exit ==
    /\ ov_fn = "pairs" /\ ov_pc = "loop" /\ ev_i < Len(bbox_events)
    /\ CurEvent[1] = "box2" /\ CurEvent[4] = 1
    /\ LET me == PairsEntry(bbox_list2, CurEvent[3])
       IN  IF me \in Range(bbox2_sweeping)
           THEN /\ bbox2_sweeping' = RemoveFirst(bbox2_sweeping, me)
                /\ ev_i' = ev_i + 1
                /\ UNCHANGED ov_pc
           ELSE /\ ov_pc' = "ValueError"
                /\ UNCHANGED <<bbox2_sweeping, ev_i>>
    /\ UNCHANGED <<ov_fn, bbox_list1, bbox_list2, bbox_events, bbox1_sweeping, overlap_list>>
    /\ UNCHANGED notOv

\* after the loop: assert len(bbox1_sweeping) == 0, then return overlap_list
PairsReturn ==
    /\ ov_fn = "pairs" /\ ov_pc = "loop" /\ ev_i = Len(bbox_events)
    /\ ov_pc' = IF Len(bbox1_sweeping) = 0 THEN "done" ELSE "AssertionError"
    /\ UNCHANGED <<ov_fn, bbox_list1, bbox_list2, bbox_events, ev_i,
                   bbox1_sweeping, bbox2_sweeping, overlap_list>>
    /\ UNCHANGED notOv

(***************************************************************************)
(* table.overlap_bboxes: active entries are (idx, y1, y2); no x test.      *)
(***************************************************************************)
TableEntry(l, idx) == <<idx, l[idx + 1][2], l[idx + 1][4]>>

\* test of lines 942 / 952 on two active entries
TableHit(e1, e2) == e2[2] <= e1[3] /\ e2[3] >= e1[2]

TableBox1Enter ==
    /\ ov_fn = "table" /\ ov_pc = "loop" /\ ev_i < Len(bbox_events)
    /\ CurEvent[1] = "box1" /\ CurEvent[4] = 0
    /\ LET me == TableEntry(bbox_list1, CurEvent[3])
       IN  /\ bbox1_sweeping' = Append(bbox1_sweeping, me)
           /\ LET sel == SelectSeq(bbox2_sweeping, LAMBDA b2 : TableHit(me, b2))
              IN  overlap_list' = overlap_list \o [k \in 1..Len(sel) |-> <<me[1], sel[k][1]>>]
    /\ ev_i' = ev_i + 1
    /\ UNCHANGED <<ov_fn, bbox_list1, bbox_list2, bbox_events, bbox2_sweeping, ov_pc>>
    /\ UNCHANGED notOv

TableBox1Exit ==
    /\ ov_fn = "table" /\ ov_pc = "loop" /\ ev_i < Len(bbox_events)
    /\ CurEvent[1] = "box1" /\ CurEvent[4] = 1
    /\ LET me == TableEntry(bbox_list1, CurEvent[3])
       IN  IF me \in Range(bbox1_sweeping)
           THEN /\ bbox1_sweeping' = RemoveFirst(bbox1_sweeping, me)
                /\ ev_i' = ev_i + 1
                /\ UNCHANGED ov_pc
           ELSE /\ ov_pc' = "ValueError"
                /\ UNCHANGED <<bbox1_sweeping, ev_i>>
    /\ UNCHANGED <<ov_fn, bbox_list1, bbox_list2, bbox_events, bbox2_sweeping, overlap_list>>
    /\ UNCHANGED notOv

TableBox2Enter ==
    /\ ov_fn = "table" /\ ov_pc = "loop" /\ ev_i < Len(bbox_events)
    /\ CurEvent[1] = "box2" /\ CurEvent[4] = 0
    /\ LET me == TableEntry(bbox_list2, CurEvent[3])
       IN  /\ bbox2_sweeping' = Append(bbox2_sweeping, me)
           /\ LET sel == SelectSeq(bbox1_sweeping, LAMBDA b1 : TableHit(b1, me))
              IN  overlap_list' = overlap_list \o [k \in 1..Len(sel) |-> <<sel[k][1], me[1]>>]
    /\ ev_i' = ev_i + 1
    /\ UNCHANGED <<ov_fn, bbox_list1, bbox_list2, bbox_events, bbox1_sweeping, ov_pc>>
    /\ UNCHANGED notOv

TableBox2Exit ==
    /\ ov_fn = "table" /\ ov_pc = "loop" /\ ev_i < Len(bbox_events)
    /\ CurEvent[1] = "box2" /\ CurEvent[4] = 1
    /\ LET me == TableEntry(bbox_list2, CurEvent[3])
       IN  IF me \in Range(bbox2_sweeping)
           THEN /\ bbox2_sweeping' = RemoveFirst(bbox2_sweeping, me)
                /\ ev_i' = ev_i + 1
                /\ UNCHANGED ov_pc
           ELSE /\ ov_pc' = "ValueError"
                /\ UNCHANGED <<bbox2_sweeping, ev_i>>
    /\ UNCHANGED <<ov_fn, bbox_list1, bbox_list2, bbox_events, bbox1_sweeping, overlap_list>>
    /\ UNCHANGED notOv

TableReturn ==
    /\ ov_fn = "table" /\ ov_pc = "loop" /\ ev_i = Len(bbox_events)
    /\ ov_pc' = IF Len(bbox1_sweeping) = 0 THEN "done" ELSE "AssertionError"
    /\ UNCHANGED <<ov_fn, bbox_list1, bbox_list2, bbox_events, ev_i,
                   bbox1_sweeping, bbox2_sweeping, overlap_list>>
    /\ UNCHANGED notOv

(***************************************************************************)
(* table_filtering_utils.naive_get_overlapped_bboxes_pairs.                *)
(***************************************************************************)
NaiveHit(b1, b2) ==
    (b1[1] < b2[3] /\ b1[3] > b2[1]) /\ (b1[2] < b2[4] /\ b1[4] > b2[2])

naive_get_overlapped_bboxes_pairs(l1, l2) ==
    LET n == Len(l1)
        m == Len(l2)
        all == [k \in 1..(n * m) |-> <<(k - 1) \div m, (k - 1) % m>>]
    IN  SelectSeq(all, LAMBDA p : NaiveHit(l1[p[1] + 1], l2[p[2] + 1]))

(***************************************************************************)
(* table.cells_to_tables.  A cell bbox is (x0, top, x1, bottom); a corner  *)
(* is a point (x, y).                                                      *)
(***************************************************************************)
bbox_to_corners(bbox) ==
    << <<bbox[1], bbox[2]>>, <<bbox[1], bbox[4]>>,
       <<bbox[3], bbox[2]>>, <<bbox[3], bbox[4]>> >>

MakeCells(bboxes) ==
    [k \in 1..Len(bboxes) |->
        [available |-> TRUE, bbox |-> bboxes[k], corners |-> bbox_to_corners(bboxes[k])]]

init_new_table == [corners |-> {}, cells |-> <<>>]

\* assign_cell's effect on the table (the cell's flag is cleared by the caller)
assign_cell(cell, table) ==
    [corners |-> table.corners \cup Range(cell.corners),
     cells   |-> Append(table.cells, cell.bbox)]

\* variant of corner_count that looks at the cell's first corner only
corner_count_FirstOnly(cell, table) ==
    IF cell.corners[1] \in table.corners THEN 1 ELSE 0

\* sum(c in current_table["corners"] for c in cell["corners"])
corner_count(cell, table) ==
    Cardinality({k \in 1..Len(cell.corners) : cell.corners[k] \in table.corners})

\* The for loop of lines 308-318 from position i on: one scan over the cells
\* that are available when the scan reaches them.
RECURSIVE ScanCells(_, _, _, _)
ScanCells(cs, cur, n, i) ==
    IF i > Len(cs) THEN [cells |-> cs, current_table |-> cur, n_assigned |-> n]
    ELSE IF ~cs[i].available THEN ScanCells(cs, cur, n, i + 1)
    ELSE IF Len(cur.cells) = 0 \/ corner_count(cs[i], cur) > 0
         THEN ScanCells([cs EXCEPT ![i].available = FALSE],
                        assign_cell(cs[i], cur), n + 1, i + 1)
         ELSE ScanCells(cs, cur, n, i + 1)

\* One iteration of the while loop (lines 306-323).
ScanPass ==
    /\ ct_pc = "loop"
    /\ LET initial_cell_count == Len(current_table.cells)
           r == ScanCells(cells, current_table, n_assigned, 1)
       IN  /\ cells' = r.cells
           /\ n_assigned' = r.n_assigned
           /\ IF r.n_assigned = Len(cells)
              THEN /\ ct_pc' = "sort"
                   /\ current_table' = r.current_table
                   /\ tables' = tables
              ELSE IF Len(r.current_table.cells) = initial_cell_count
              THEN /\ tables' = Append(tables, r.current_table)
                   /\ current_table' = init_new_table
                   /\ ct_pc' = ct_pc
              ELSE /\ current_table' = r.current_table
                   /\ tables' = tables
                   /\ ct_pc' = ct_pc
    /\ UNCHANGED filtered
    /\ UNCHANGED notCt

\* (y, x) order of two corners: corner[::-1] compared as tuples
CornerLeq(c, d) == c[2] < d[2] \/ (c[2] = d[2] /\ c[1] <= d[1])

\* variant of TableKeyLeq that takes and compares the smallest (x, y) corner
TableKeyLeq_XY(t, u) ==
    LET c == CHOOSE c \in t.corners : \A d \in t.corners :
                 c[1] < d[1] \/ (c[1] = d[1] /\ c[2] <= d[2])
        e == CHOOSE e \in u.corners : \A d \in u.corners :
                 e[1] < d[1] \/ (e[1] = d[1] /\ e[2] <= d[2])
    IN  c[1] < e[1] \/ (c[1] = e[1] /\ c[2] <= e[2])

\* key=lambda t: min(corner[::-1] for corner in t["corners"]), compared
TableKeyLeq(t, u) ==
    LET c == CHOOSE c \in t.corners : \A d \in t.corners : CornerLeq(c, d)
        e == CHOOSE e \in u.corners : \A d \in u.corners : CornerLeq(e, d)
    IN  CornerLeq(c, e)

\* sorted(tables, key=...): stable
RECURSIVE SortTables(_)
SortTables(s) ==
    IF s = <<>> THEN <<>>
    ELSE LET r == SortTables(SubSeq(s, 1, Len(s) - 1))
             e == s[Len(s)]
             k == Cardinality({j \in 1..Len(r) : TableKeyLeq(r[j], e)})
         IN  SubSeq(r, 1, k) \o <<e>> \o SubSeq(r, k + 1, Len(r))

\* variant of KeepTable that keeps every table that has a cell
KeepTable_NonEmpty(t) == Len(t.cells) > 0

\* the filter of line 333
KeepTable(t) == Len(t.cells) > 1

\* Lines 325-334: close the last table, sort, drop the small tables, return.
SortAndFilter ==
    /\ ct_pc = "sort"
    /\ LET all == IF Len(current_table.cells) > 0
                  THEN Append(tables, current_table) ELSE tables
           kept == SelectSeq(SortTables(all), KeepTable)
       IN  /\ tables' = all
           /\ filtered' = [k \in 1..Len(kept) |-> kept[k].cells]
    /\ ct_pc' = "done"
    /\ UNCHANGED <<cells, current_table, n_assigned>>
    /\ UNCHANGED notCt

\* Generated cells have positive width and height.
CellBboxes ==
    {b \in (0..MaxCellX) \X (0..MaxCellY) \X (0..MaxCellX) \X (0..MaxCellY) :
        b[1] < b[3] /\ b[2] < b[4]}

\* A 2 x 2 grid (the cells of a square bisected both ways, in half units);
\* and a three-cell row listed out of order, a two-cell row above it and to
\* its right, and an isolated cell.
GridCells == << <<0, 0, 1, 1>>, <<0, 1, 1, 2>>, <<1, 0, 2, 1>>, <<1, 1, 2, 2>> >>
TwoTablesCells == << <<0, 3, 1, 4>>, <<3, 0, 4, 1>>, <<2, 3, 3, 4>>, <<1, 3, 2, 4>>,
                     <<4, 0, 5, 1>>, <<7, 7, 8, 8>> >>

\* the generated lists, and every sub-list of the two example lists
CellInputs ==
    UNION {[1..n -> CellBboxes] : n \in 0..MaxCells}
    \cup {Pick(GridCells, I, 1) : I \in SUBSET (1..Len(GridCells))}
    \cup {Pick(TwoTablesCells, I, 1) : I \in SUBSET (1..Len(TwoTablesCells))}

TablesInit ==
    /\ \E bs \in CellInputs : cells = MakeCells(bs)
    /\ tables = <<>>
    /\ current_table = init_new_table
    /\ n_assigned = 0
    /\ filtered = <<>>
    /\ ct_pc = "loop"
    /\ IdleButTables

TablesNext == ScanPass \/ SortAndFilter

SpecTables == TablesInit /\ [][TablesNext]_vars

\* The call runs on: a statement that can execute is eventually executed.
SpecTablesFair == TablesInit /\ [][TablesNext]_vars /\ WF_vars(TablesNext)

(***************************************************************************)
(* Specification of one overlap call on generated or example lists.        *)
(***************************************************************************)
\* Generated calls hold at most MaxBoxes boxes; when one list is empty the
\* other one holds at most one box (no pair can arise there).
OverlapSizes ==
    {q \in (0..MaxBoxes) \X (0..MaxBoxes) :
        /\ q[1] + q[2] <= MaxBoxes
        /\ (q[1] = 0 \/ q[2] = 0) => q[1] + q[2] <= 1}

OverlapInputs ==
    UNION {[1..q[1] -> Bboxes] \X [1..q[2] -> Bboxes] : q \in OverlapSizes}
    \cup {<<ExampleList1, ExampleList2>>, <<ReorderList1, ReorderList2>>}

OverlapInit ==
    /\ ov_fn \in {"pairs", "table"}
    /\ \E p \in OverlapInputs :
          /\ bbox_list1 = p[1]
          /\ bbox_list2 = p[2]
          /\ bbox_events = MakeEvents(p[1], p[2])
    /\ ev_i = 0
    /\ bbox1_sweeping = <<>>
    /\ bbox2_sweeping = <<>>
    /\ overlap_list = <<>>
    /\ ov_pc = "loop"
    /\ IdleButOverlap

OverlapNext ==
    \/ PairsBox1Enter \/ PairsBox1Exit \/ PairsBox2Enter \/ PairsBox2Exit
    \/ PairsReturn
    \/ TableBox1Enter \/ TableBox1Exit \/ TableBox2Enter \/ TableBox2Exit
    \/ TableReturn

SpecOverlap == OverlapInit /\ [][OverlapNext]_vars

(***************************************************************************)
(* table.edges_to_intersections.                                           *)
(***************************************************************************)
VKeyLeq(a, b) == a.x0 < b.x0 \/ (a.x0 = b.x0 /\ a.top <= b.top)
HKeyLeq(a, b) == a.top < b.top \/ (a.top = b.top /\ a.x0 <= b.x0)

\* sorted(v_edges, key=itemgetter("x0", "top")), a stable sort
RECURSIVE SortV(_)
SortV(s) ==
    IF s = <<>> THEN <<>>
    ELSE LET r == SortV(SubSeq(s, 1, Len(s) - 1))
             e == s[Len(s)]
             k == Cardinality({j \in 1..Len(r) : VKeyLeq(r[j], e)})
         IN  SubSeq(r, 1, k) \o <<e>> \o SubSeq(r, k + 1, Len(r))

\* sorted(h_edges, key=itemgetter("top", "x0")), a stable sort
RECURSIVE SortH(_)
SortH(s) ==
    IF s = <<>> THEN <<>>
    ELSE LET r == SortH(SubSeq(s, 1, Len(s) - 1))
             e == s[Len(s)]
             k == Cardinality({j \in 1..Len(r) : HKeyLeq(r[j], e)})
         IN  SubSeq(r, 1, k) \o <<e>> \o SubSeq(r, k + 1, Len(r))

\* variant of Crosses that omits the test against the right end of h
Crosses_NoRightEnd(v, h, xt, yt) ==
    /\ v.top <= h.top + yt
    /\ v.bottom >= h.top - yt
    /\ v.x0 >= h.x0 - xt

\* the condition of the inner loop
Crosses(v, h, xt, yt) ==
    /\ v.top <= h.top + yt
    /\ v.bottom >= h.top - yt
    /\ v.x0 >= h.x0 - xt
    /\ v.x0 <= h.x1 + xt

\* The (v, h) pairs that pass the condition, in the order of the two loops
\* (v outer, h inner).
CrossingPairs(es, xt, yt) ==
    LET v_edges == SortV(SelectSeq(es, LAMBDA e : e.orientation = "v"))
        h_edges == SortH(SelectSeq(es, LAMBDA e : e.orientation = "h"))
        nh      == Len(h_edges)
        all     == [k \in 1..(Len(v_edges) * nh) |->
                      <<v_edges[((k - 1) \div nh) + 1], h_edges[((k - 1) % nh) + 1]>>]
    IN  SelectSeq(all, LAMBDA q : Crosses(q[1], q[2], xt, yt))

\* The returned dict: a key per vertex (v.x0, h.top) of a crossing pair; the
\* v and the h of every pair are appended to the lists of its vertex.
edges_to_intersections(es, xt, yt) ==
    LET hits == CrossingPairs(es, xt, yt)
        keys == {<<hits[k][1].x0, hits[k][2].top>> : k \in 1..Len(hits)}
    IN  [p \in keys |->
            LET mine == SelectSeq(hits, LAMBDA q : <<q[1].x0, q[2].top>> = p)
            IN  [v |-> [k \in 1..Len(mine) |-> mine[k][1]],
                 h |-> [k \in 1..Len(mine) |-> mine[k][2]]]]

EdgesToIntersections ==
    /\ ic_pc = "edges"
    /\ intersections' = edges_to_intersections(edges, x_tolerance, y_tolerance)
    /\ ic_pc' = "intersections"
    /\ UNCHANGED <<edges, x_tolerance, y_tolerance, cell_list>>
    /\ UNCHANGED notIc

(***************************************************************************)
(* table.intersections_to_cells.                                           *)
(***************************************************************************)
obj_to_bbox(e) == <<e.x0, e.top, e.x1, e.bottom>>

edges_to_set(es) == {obj_to_bbox(es[k]) : k \in 1..Len(es)}

edge_connects(ints, p1, p2) ==
    \/ /\ p1[1] = p2[1]
       /\ edges_to_set(ints[p1].v) \cap edges_to_set(ints[p2].v) # {}
    \/ /\ p1[2] = p2[2]
       /\ edges_to_set(ints[p1].h) \cap edges_to_set(ints[p2].h) # {}

PointLt(p, q) == p[1] < q[1] \/ (p[1] = q[1] /\ p[2] < q[2])

\* list(sorted(intersections.keys())): the keys are distinct tuples
RECURSIVE SortedPoints(_)
SortedPoints(S) ==
    IF S = {} THEN <<>>
    ELSE LET m == CHOOSE p \in S : \A q \in S \ {p} : PointLt(p, q)
         IN  <<m>> \o SortedPoints(S \ {m})

\* find_smallest_cell returns None when it finds no cell
None == <<>>

\* variant of find_smallest_cell that accepts a bottom-right vertex without
\* testing its connection to the right-hand vertex
find_smallest_cell_NoRightSide(ints, points, i) ==
    IF i = Len(points) - 1 THEN None
    ELSE LET pt    == points[i + 1]
             rest  == SubSeq(points, i + 2, Len(points))
             below == SelectSeq(rest, LAMBDA x : x[1] = pt[1])
             right == SelectSeq(rest, LAMBDA x : x[2] = pt[2])
             nr    == Len(right)
             tries == [k \in 1..(Len(below) * nr) |->
                         <<below[((k - 1) \div nr) + 1], right[((k - 1) % nr) + 1]>>]
             found == SelectSeq(tries, LAMBDA q :
                         /\ edge_connects(ints, pt, q[1])
                         /\ edge_connects(ints, pt, q[2])
                         /\ <<q[2][1], q[1][2]>> \in DOMAIN ints
                         /\ edge_connects(ints, <<q[2][1], q[1][2]>>, q[1]))
         IN  IF found = <<>> THEN None
             ELSE <<pt[1], pt[2], found[1][2][1], found[1][1][2]>>

\* variant of find_smallest_cell that returns the last acceptable pair of
\* the two loops instead of the first
find_smallest_cell_LastFound(ints, points, i) ==
    IF i = Len(points) - 1 THEN None
    ELSE LET pt    == points[i + 1]
             rest  == SubSeq(points, i + 2, Len(points))
             below == SelectSeq(rest, LAMBDA x : x[1] = pt[1])
             right == SelectSeq(rest, LAMBDA x : x[2] = pt[2])
             nr    == Len(right)
             tries == [k \in 1..(Len(below) * nr) |->
                         <<below[((k - 1) \div nr) + 1], right[((k - 1) % nr) + 1]>>]
             found == SelectSeq(tries, LAMBDA q :
                         /\ edge_connects(ints, pt, q[1])
                         /\ edge_connects(ints, pt, q[2])
                         /\ <<q[2][1], q[1][2]>> \in DOMAIN ints
                         /\ edge_connects(ints, <<q[2][1], q[1][2]>>, q[2])
                         /\ edge_connects(ints, <<q[2][1], q[1][2]>>, q[1]))
         IN  IF found = <<>> THEN None
             ELSE <<pt[1], pt[2], found[Len(found)][2][1], found[Len(found)][1][2]>>

\* find_smallest_cell(points, i), i 0-based: the pairs (below_pt, right_pt)
\* in the order of the two loops (below outer, right inner); the first pair
\* that passes every test is returned as (pt.x, pt.y, right.x, below.y).
find_smallest_cell(ints, points, i) ==
    IF i = Len(points) - 1 THEN None
    ELSE LET pt    == points[i + 1]
             rest  == SubSeq(points, i + 2, Len(points))
             below == SelectSeq(rest, LAMBDA x : x[1] = pt[1])
             right == SelectSeq(rest, LAMBDA x : x[2] = pt[2])
             nr    == Len(right)
             tries == [k \in 1..(Len(below) * nr) |->
                         <<below[((k - 1) \div nr) + 1], right[((k - 1) % nr) + 1]>>]
             found == SelectSeq(tries, LAMBDA q :
                         /\ edge_connects(ints, pt, q[1])
                         /\ edge_connects(ints, pt, q[2])
                         /\ <<q[2][1], q[1][2]>> \in DOMAIN ints
                         /\ edge_connects(ints, <<q[2][1], q[1][2]>>, q[2])
                         /\ edge_connects(ints, <<q[2][1], q[1][2]>>, q[1]))
         IN  IF found = <<>> THEN None
             ELSE <<pt[1], pt[2], found[1][2][1], found[1][1][2]>>

\* cell_gen over range(len(points)), then filter(None, cell_gen)
intersections_to_cells(ints) ==
    LET points   == SortedPoints(DOMAIN ints)
        cell_gen == [k \in 1..Len(points) |-> find_smallest_cell(ints, points, k - 1)]
    IN  SelectSeq(cell_gen, LAMBDA c : c # None)

IntersectionsToCells ==
    /\ ic_pc = "intersections"
    /\ cell_list' = intersections_to_cells(intersections)
    /\ ic_pc' = "done"
    /\ UNCHANGED <<edges, x_tolerance, y_tolerance, intersections>>
    /\ UNCHANGED notIc

(***************************************************************************)
(* Specification of one edges_to_intersections call followed by one        *)
(* intersections_to_cells call on its result.                              *)
(***************************************************************************)

\* Generated edges have positive length, vertical edges have x0 = x1 and
\* horizontal edges have top = bottom.
VEdges ==
    {VEdge(q[1], q[2], q[3]) :
        q \in {q \in (0..MaxEdgeX) \X (0..MaxEdgeY) \X (0..MaxEdgeY) : q[2] < q[3]}}
HEdges ==
    {HEdge(q[1], q[2], q[3]) :
        q \in {q \in (0..MaxEdgeY) \X (0..MaxEdgeX) \X (0..MaxEdgeX) : q[2] < q[3]}}

\* the sets of at most k elements of U
RECURSIVE SubsetsUpTo(_, _)
SubsetsUpTo(U, k) ==
    IF k = 0 THEN {{}}
    ELSE LET prev == SubsetsUpTo(U, k - 1)
         IN  prev \cup {s \cup {e} : s \in prev, e \in U}

\* A generated set of edges is passed as a list that mixes the two
\* orientations and is in descending order of (x0, top, x1, bottom).
EdgeLeq(e, f) ==
    \E k \in 1..5 :
        /\ \A j \in 1..(k - 1) : obj_to_bbox(e)[j] = obj_to_bbox(f)[j]
        /\ k = 5 \/ obj_to_bbox(e)[k] < obj_to_bbox(f)[k]

RECURSIVE EdgeSeq(_)
EdgeSeq(S) ==
    IF S = {} THEN <<>>
    ELSE LET m == CHOOSE e \in S : \A f \in S : EdgeLeq(f, e)
         IN  <<m>> \o EdgeSeq(S \ {m})

\* Three vertical and three horizontal lines of length 2 that cross in a
\* 3 x 3 lattice of vertices, and three shorter edges that lie on the middle
\* and last lines.  Every sub-list of this list is an input.
LatticeEdges ==
    << HEdge(1, 0, 2), VEdge(2, 0, 2), VEdge(1, 0, 1), VEdge(0, 0, 2),
       HEdge(0, 0, 2), VEdge(1, 0, 2), HEdge(1, 0, 1), HEdge(2, 0, 2),
       VEdge(2, 1, 2) >>

\* A frame whose right-hand side is two separate edges with a gap between
\* them, and a frame whose bottom side is two separate edges with a gap.
BrokenRightEdges ==
    << VEdge(0, 0, 6), VEdge(3, 4, 6), VEdge(3, 0, 2), HEdge(0, 0, 3), HEdge(6, 0, 3) >>
BrokenBottomEdges ==
    << HEdge(0, 0, 6), HEdge(3, 4, 6), HEdge(3, 0, 2), VEdge(0, 0, 3), VEdge(6, 0, 3) >>

Tolerances == {0, 1}

EdgeInputs ==
    {EdgeSeq(S) : S \in SubsetsUpTo(VEdges \cup HEdges, MaxEdges)}
    \cup {Pick(LatticeEdges, I, 1) : I \in SUBSET (1..Len(LatticeEdges))}
    \cup {BrokenRightEdges, BrokenBottomEdges}

CellsInit ==
    /\ edges \in EdgeInputs
    /\ x_tolerance \in Tolerances
    /\ y_tolerance \in Tolerances
    /\ intersections = <<>>
    /\ cell_list = <<>>
    /\ ic_pc = "edges"
    /\ IdleButCells

CellsNext == EdgesToIntersections \/ IntersectionsToCells

SpecCells == CellsInit /\ [][CellsNext]_vars

(***************************************************************************)
(* Arithmetic on coordinates.  A coordinate is a binary floating-point     *)
(* number; the model keeps MantBits bits of significand instead of the 53  *)
(* of a Python float, and counts in units of the smallest spacing, so a    *)
(* value is an integer m * 2^e with |m| < 2^MantBits and e >= 0.  Every    *)
(* operation returns the representable number nearest to the exact result, *)
(* the one with the even significand on a tie.                             *)
(***************************************************************************)
RECURSIVE Pow2(_)
Pow2(n) == IF n = 0 THEN 1 ELSE 2 * Pow2(n - 1)

\* spacing of the representable numbers around num / den (num >= 0), found
\* by doubling u from its starting value
RECURSIVE Spacing(_, _, _)
Spacing(num, den, u) ==
    IF num >= Pow2(MantBits) * u * den THEN Spacing(num, den, 2 * u) ELSE u

\* num / den (num >= 0, den > 0) rounded to the nearest representable number
RoundQuotient(num, den) ==
    LET u    == Spacing(num, den, 1)
        d    == den * u
        fl   == num \div d
        rem2 == 2 * (num - fl * d)
    IN  IF rem2 > d \/ (rem2 = d /\ fl % 2 = 1) THEN (fl + 1) * u ELSE fl * u

\* a / n for a float a and an int n > 0
FlDiv(a, n) == IF a < 0 THEN 0 - RoundQuotient(0 - a, n) ELSE RoundQuotient(a, n)

FlAdd(a, b) == FlDiv(a + b, 1)
FlSub(a, b) == FlDiv(a - b, 1)

\* sum(...) of a list: left to right, starting from 0
RECURSIVE FlSum(_)
FlSum(s) ==
    IF s = <<>> THEN 0 ELSE FlAdd(FlSum(SubSeq(s, 1, Len(s) - 1)), s[Len(s)])

(***************************************************************************)
(* utils.resize_object and table.join_edge_group.                          *)
(***************************************************************************)
\* the assertion of resize_object on its arguments
resize_asserts(obj, key, value) ==
    CASE key = "x0"     -> value <= obj.x1
      [] key = "x1"     -> value >= obj.x0
      [] key = "top"    -> value <= obj.bottom
      [] key = "bottom" -> value >= obj.top

\* variant of resize_object that sets the key and leaves width and height
resize_object_KeepSize(obj, key, value) ==
    CASE key = "x0"     -> [obj EXCEPT !.x0 = value]
      [] key = "x1"     -> [obj EXCEPT !.x1 = value]
      [] key = "top"    -> [obj EXCEPT !.top = value]
      [] key = "bottom" -> [obj EXCEPT !.bottom = value]

\* resize_object(obj, key, value) when its assertion holds
resize_object(obj, key, value) ==
    LET diff == FlSub(value, obj[key])
    IN  CASE key = "x0" ->
               [obj EXCEPT !.x0 = value, !.width = FlSub(obj.x1, value)]
          [] key = "x1" ->
               [obj EXCEPT !.x1 = value, !.width = FlSub(value, obj.x0)]
          [] key = "top" ->
               [obj EXCEPT !.top = value, !.height = FlSub(obj.height, diff)]
          [] key = "bottom" ->
               [obj EXCEPT !.bottom = value, !.height = FlAdd(obj.height, diff)]

min_prop(orientation) == IF orientation = "h" THEN "x0" ELSE "top"
max_prop(orientation) == IF orientation = "h" THEN "x1" ELSE "bottom"

StartLeq(orientation, a, b) == a[min_prop(orientation)] <= b[min_prop(orientation)]

\* sorted(edges, key=itemgetter(min_prop)), a stable sort
RECURSIVE SortByStart(_, _)
SortByStart(orientation, s) ==
    IF s = <<>> THEN <<>>
    ELSE LET r == SortByStart(orientation, SubSeq(s, 1, Len(s) - 1))
             e == s[Len(s)]
             k == Cardinality({j \in 1..Len(r) : StartLeq(orientation, r[j], e)})
         IN  SubSeq(r, 1, k) \o <<e>> \o SubSeq(r, k + 1, Len(r))

\* variant of join_step that joins only an edge that starts strictly before
\* the end of the last segment plus the tolerance
join_step_Strict(js, e, orientation, tolerance) ==
    LET last == js[Len(js)]
        mx   == max_prop(orientation)
    IN  IF e[min_prop(orientation)] < FlAdd(last[mx], tolerance)
        THEN IF e[mx] > last[mx]
             THEN [js EXCEPT ![Len(js)] = resize_object(last, mx, e[mx])]
             ELSE js
        ELSE Append(js, e)

\* the body of the for loop: the list joined after edge e is processed
join_step(js, e, orientation, tolerance) ==
    LET last == js[Len(js)]
        mx   == max_prop(orientation)
    IN  IF e[min_prop(orientation)] <= FlAdd(last[mx], tolerance)
        THEN IF e[mx] > last[mx]
             THEN [js EXCEPT ![Len(js)] = resize_object(last, mx, e[mx])]
             ELSE js
        ELSE Append(js, e)

\* orientation is neither "h" nor "v"
JoinRaiseValueError ==
    /\ jg_pc = "start"
    /\ jg_orientation \notin {"h", "v"}
    /\ jg_pc' = "ValueError"
    /\ UNCHANGED <<jg_edges, jg_orientation, jg_tolerance, sorted_edges, joined, jg_i>>
    /\ UNCHANGED notJg

\* sorted_edges[0] of an empty list
JoinRaiseIndexError ==
    /\ jg_pc = "start"
    /\ jg_orientation \in {"h", "v"}
    /\ jg_edges = <<>>
    /\ jg_pc' = "IndexError"
    /\ UNCHANGED <<jg_edges, jg_orientation, jg_tolerance, sorted_edges, joined, jg_i>>
    /\ UNCHANGED notJg

JoinSort ==
    /\ jg_pc = "start"
    /\ jg_orientation \in {"h", "v"}
    /\ jg_edges # <<>>
    /\ sorted_edges' = SortByStart(jg_orientation, jg_edges)
    /\ joined' = <<sorted_edges'[1]>>
    /\ jg_i' = 0
    /\ jg_pc' = "loop"
    /\ UNCHANGED <<jg_edges, jg_orientation, jg_tolerance>>
    /\ UNCHANGED notJg

\* one iteration of the loop over sorted_edges[1:]
JoinStep ==
    /\ jg_pc = "loop"
    /\ jg_i < Len(sorted_edges) - 1
    /\ joined' = join_step(joined, sorted_edges[jg_i + 2], jg_orientation, jg_tolerance)
    /\ jg_i' = jg_i + 1
    /\ UNCHANGED <<jg_edges, jg_orientation, jg_tolerance, sorted_edges, jg_pc>>
    /\ UNCHANGED notJg

JoinReturn ==
    /\ jg_pc = "loop"
    /\ jg_i = Len(sorted_edges) - 1
    /\ jg_pc' = "done"
    /\ UNCHANGED <<jg_edges, jg_orientation, jg_tolerance, sorted_edges, joined, jg_i>>
    /\ UNCHANGED notJg

\* join_edge_group(edges, orientation, tolerance) as a function of a
\* non-empty list and an orientation in {"h", "v"}
RECURSIVE JoinFrom(_, _, _, _, _)
JoinFrom(js, s, i, orientation, tolerance) ==
    IF i > Len(s) THEN js
    ELSE JoinFrom(join_step(js, s[i], orientation, tolerance), s, i + 1,
                  orientation, tolerance)

join_edge_group(es, orientation, tolerance) ==
    LET s == SortByStart(orientation, es)
    IN  JoinFrom(<<s[1]>>, s, 2, orientation, tolerance)

(***************************************************************************)
(* Specification of one join_edge_group call.                              *)
(***************************************************************************)
\* the (start, end) pairs of the generated edges: positive length
Spans == {q \in (0..MaxSpan) \X (0..MaxSpan) : q[1] < q[2]}

\* a span laid along the line at position c
SpanEdge(orientation, c, q) ==
    IF orientation = "h" THEN HEdge(c, q[1], q[2]) ELSE VEdge(c, q[1], q[2])

\* spec.md, edge merge example: two horizontal edges at top = 100
ExampleGroup == << HEdge(100, 0, 50), HEdge(100, 52, 100) >>

JoinInputs ==
    {<<[k \in 1..Len(qs) |-> SpanEdge(o, 0, qs[k])], o, t>> :
        qs \in UNION {[1..n -> Spans] : n \in 0..MaxGroup},
        o \in {"h", "v"}, t \in 0..MaxJoinTol}
    \cup {<<ExampleGroup, "h", 5>>, <<ExampleGroup, "h", 1>>,
          <<ExampleGroup, "d", 5>>}

JoinInit ==
    /\ \E a \in JoinInputs :
          /\ jg_edges = a[1]
          /\ jg_orientation = a[2]
          /\ jg_tolerance = a[3]
    /\ sorted_edges = <<>>
    /\ joined = <<>>
    /\ jg_i = 0
    /\ jg_pc = "start"
    /\ IdleButJoin

JoinNext ==
    \/ JoinRaiseValueError \/ JoinRaiseIndexError
    \/ JoinSort \/ JoinStep \/ JoinReturn

SpecJoin == JoinInit /\ [][JoinNext]_vars

(***************************************************************************)
(* utils.cluster_list, make_cluster_dict, cluster_objects, move_object and *)
(* snap_objects.                                                           *)
(***************************************************************************)
\* sorted(xs) for a list of numbers
RECURSIVE SortNums(_)
SortNums(s) ==
    IF s = <<>> THEN <<>>
    ELSE LET r == SortNums(SubSeq(s, 1, Len(s) - 1))
             e == s[Len(s)]
             k == Cardinality({j \in 1..Len(r) : r[j] <= e})
         IN  SubSeq(r, 1, k) \o <<e>> \o SubSeq(r, k + 1, Len(r))

\* the loop of cluster_list over xs[1:]
RECURSIVE ClusterFrom(_, _, _, _, _, _)
ClusterFrom(groups, current_group, last, xs, i, tolerance) ==
    IF i > Len(xs) THEN Append(groups, current_group)
    ELSE IF xs[i] <= FlAdd(last, tolerance)
         THEN ClusterFrom(groups, Append(current_group, xs[i]), xs[i],
                          xs, i + 1, tolerance)
         ELSE ClusterFrom(Append(groups, current_group), <<xs[i]>>, xs[i],
                          xs, i + 1, tolerance)

cluster_list(xs, tolerance) ==
    LET s == SortNums(xs)
    IN  IF tolerance = 0 \/ Len(xs) < 2
        THEN [k \in 1..Len(s) |-> <<s[k]>>]
        ELSE ClusterFrom(<<>>, <<s[1]>>, s[1], s, 2, tolerance)

\* list(S) for a set S of numbers; cluster_list sorts it, so the one order
\* taken here stands for every order
RECURSIVE ListOfSet(_)
ListOfSet(S) ==
    IF S = {} THEN <<>>
    ELSE LET m == CHOOSE x \in S : \A y \in S : y <= x
         IN  Append(ListOfSet(S \ {m}), m)

\* the dict value -> 0-based index of the cluster that holds the value
make_cluster_dict(values, tolerance) ==
    LET clusters == cluster_list(ListOfSet(Range(values)), tolerance)
    IN  [val \in Range(values) |->
            (CHOOSE i \in 1..Len(clusters) : val \in Range(clusters[i])) - 1]

\* The objects grouped by cluster index in ascending order of the index, in
\* their input order inside a cluster (a stable sort, then groupby).
cluster_objects(objs, attr, tolerance) ==
    LET cluster_dict == make_cluster_dict([k \in 1..Len(objs) |-> objs[k][attr]],
                                          tolerance)
        n == Cardinality({cluster_dict[val] : val \in DOMAIN cluster_dict})
    IN  [i \in 1..n |-> SelectSeq(objs, LAMBDA o : cluster_dict[o[attr]] = i - 1)]

move_object(obj, axis, value) ==
    IF axis = "h"
    THEN [obj EXCEPT !.x0 = FlAdd(obj.x0, value), !.x1 = FlAdd(obj.x1, value)]
    ELSE [obj EXCEPT !.top = FlAdd(obj.top, value),
                     !.bottom = FlAdd(obj.bottom, value)]

\* itertools.chain(*lists)
RECURSIVE Chain(_)
Chain(lists) ==
    IF lists = <<>> THEN <<>>
    ELSE lists[1] \o Chain(SubSeq(lists, 2, Len(lists)))

snap_objects(objs, attr, tolerance) ==
    LET axis     == IF attr \in {"x0", "x1"} THEN "h" ELSE "v"
        clusters == cluster_objects(objs, attr, tolerance)
        avgs     == [i \in 1..Len(clusters) |->
                       FlDiv(FlSum([k \in 1..Len(clusters[i]) |-> clusters[i][k][attr]]),
                             Len(clusters[i]))]
    IN  Chain([i \in 1..Len(clusters) |->
                 [k \in 1..Len(clusters[i]) |->
                     move_object(clusters[i][k], axis,
                                 FlSub(avgs[i], clusters[i][k][attr]))]])

\* the keys snap_objects and move_object read in every object: attr
\* (cluster_objects, the averages) and the two keys of attr's axis
keys_read(attr) ==
    {attr} \cup (IF attr \in {"x0", "x1"} THEN {"x0", "x1"} ELSE {"top", "bottom"})

\* a call of snap_objects whose objects carry every key that is read
SnapObjects ==
    /\ sn_pc = "start"
    /\ \A k \in 1..Len(sn_objs) : keys_read(sn_attr) \subseteq DOMAIN sn_objs[k]
    /\ sn_result' = snap_objects(sn_objs, sn_attr, sn_tolerance)
    /\ sn_pc' = "done"
    /\ UNCHANGED <<sn_objs, sn_attr, sn_tolerance>>
    /\ UNCHANGED notSn

\* a call of snap_objects in which obj[attr], obj["x0"], obj["x1"],
\* obj["top"] or obj["bottom"] is read in an object without that key
SnapRaiseKeyError ==
    /\ sn_pc = "start"
    /\ \E k \in 1..Len(sn_objs) : ~ (keys_read(sn_attr) \subseteq DOMAIN sn_objs[k])
    /\ sn_pc' = "KeyError"
    /\ UNCHANGED <<sn_objs, sn_attr, sn_tolerance, sn_result>>
    /\ UNCHANGED notSn

(***************************************************************************)
(* Specification of one snap_objects call.  The generated objects lie on   *)
(* the positions of Positions, which are in different binades, and have an *)
(* extent of 0 or 4 on each axis.  The objects of the snapping example are *)
(* in units of a quarter: 10, 10.5 and 20 are 40, 42 and 80, tolerance 1   *)
(* is 4.                                                                   *)
(***************************************************************************)
SnapPositions == {1, 132}
SnapExtents == {0, 4}
SnapAttrs == {"x0", "x1", "top", "bottom"}

SnapObjectSet ==
    {[x0 |-> x, x1 |-> x + w, top |-> y, bottom |-> y + 4] :
        x \in SnapPositions, y \in SnapPositions, w \in SnapExtents}

\* objects that carry only x0
ExampleObjsOnlyX0 == <<[x0 |-> 40], [x0 |-> 42], [x0 |-> 80]>>
\* the same objects with an x1
ExampleObjs == <<[x0 |-> 40, x1 |-> 44], [x0 |-> 42, x1 |-> 50], [x0 |-> 80, x1 |-> 84]>>

SnapInputs ==
    ((UNION {[1..n -> SnapObjectSet] : n \in 0..MaxSnapObjs})
        \X SnapAttrs \X {0, 132})
    \cup {<<ExampleObjsOnlyX0, "x0", 4>>, <<ExampleObjs, "x0", 4>>,
          <<ExampleObjs, "x1", 4>>, <<ExampleObjs, "top", 4>>}

SnapInit ==
    /\ \E in \in SnapInputs :
          /\ sn_objs = in[1]
          /\ sn_attr = in[2]
          /\ sn_tolerance = in[3]
    /\ sn_result = <<>>
    /\ sn_pc = "start"
    /\ IdleButSnap

SnapNext == SnapObjects \/ SnapRaiseKeyError

SpecSnap == SnapInit /\ [][SnapNext]_vars

(***************************************************************************)
(* Specification of one cluster_list call.                                 *)
(***************************************************************************)
ClusterList ==
    /\ cl_pc = "start"
    /\ cl_groups' = cluster_list(cl_xs, cl_tolerance)
    /\ cl_pc' = "done"
    /\ UNCHANGED <<cl_xs, cl_tolerance>>
    /\ UNCHANGED notCl

\* spec.md, clustering example
ExampleValues == <<1, 2, 5, 6, 10>>

ClusterInputs ==
    (UNION {[1..n -> 0..MaxValue] : n \in 0..MaxValues}) \X (0..MaxClusterTol)
    \cup {<<ExampleValues, 2>>, <<ExampleValues, 0>>}

ClusterInit ==
    /\ \E a \in ClusterInputs : cl_xs = a[1] /\ cl_tolerance = a[2]
    /\ cl_groups = <<>>
    /\ cl_pc = "start"
    /\ IdleButCluster

ClusterNext == ClusterList

SpecCluster == ClusterInit /\ [][ClusterNext]_vars

(***************************************************************************)
(* table.snap_edges and table.merge_edges.                                 *)
(***************************************************************************)
snap_edges(es, x_tol, y_tol) ==
    snap_objects(SelectSeq(es, LAMBDA e : e.orientation = "v"), "x0", x_tol)
    \o snap_objects(SelectSeq(es, LAMBDA e : e.orientation = "h"), "top", y_tol)

get_group(edge) ==
    IF edge.orientation = "h" THEN <<"h", edge.top>> ELSE <<"v", edge.x0>>

\* order of the tuples returned by get_group: "h" sorts before "v"
GroupLeq(a, b) ==
    IF get_group(a)[1] = get_group(b)[1]
    THEN get_group(a)[2] <= get_group(b)[2]
    ELSE get_group(a)[1] = "h"

\* sorted(edges, key=get_group), a stable sort
RECURSIVE SortByGroup(_)
SortByGroup(s) ==
    IF s = <<>> THEN <<>>
    ELSE LET r == SortByGroup(SubSeq(s, 1, Len(s) - 1))
             e == s[Len(s)]
             k == Cardinality({j \in 1..Len(r) : GroupLeq(r[j], e)})
         IN  SubSeq(r, 1, k) \o <<e>> \o SubSeq(r, k + 1, Len(r))

\* groupby over the sorted list, join_edge_group on every group, chain
RECURSIVE JoinGroups(_, _, _)
JoinGroups(s, join_x_tol, join_y_tol) ==
    IF s = <<>> THEN <<>>
    ELSE LET k == get_group(s[1])
             n == CHOOSE j \in 1..Len(s) :
                    /\ \A m \in 1..j : get_group(s[m]) = k
                    /\ j = Len(s) \/ get_group(s[j + 1]) # k
         IN  join_edge_group(SubSeq(s, 1, n), k[1],
                             IF k[1] = "h" THEN join_x_tol ELSE join_y_tol)
             \o JoinGroups(SubSeq(s, n + 1, Len(s)), join_x_tol, join_y_tol)

\* the edges after the first statement of merge_edges: snapped when one of
\* the snap tolerances is positive
snap_if_positive(es, snap_x_tol, snap_y_tol) ==
    IF snap_x_tol > 0 \/ snap_y_tol > 0
    THEN snap_edges(es, snap_x_tol, snap_y_tol)
    ELSE es

merge_edges(es, snap_x_tol, snap_y_tol, join_x_tol, join_y_tol) ==
    JoinGroups(SortByGroup(snap_if_positive(es, snap_x_tol, snap_y_tol)),
               join_x_tol, join_y_tol)

\* a call of merge_edges
MergeEdges ==
    /\ mg_pc = "start"
    /\ snapped' = snap_if_positive(mg_edges, snap_x_tolerance, snap_y_tolerance)
    /\ merged' = merge_edges(mg_edges, snap_x_tolerance, snap_y_tolerance,
                             join_x_tolerance, join_y_tolerance)
    /\ mg_pc' = "merged"
    /\ UNCHANGED <<mg_edges, snap_x_tolerance, snap_y_tolerance,
                   join_x_tolerance, join_y_tolerance, merged_again>>
    /\ UNCHANGED notMg

\* a call of merge_edges on the edges the first call returned, with the
\* same tolerances
MergeAgain ==
    /\ mg_pc = "merged"
    /\ merged_again' = merge_edges(merged, snap_x_tolerance, snap_y_tolerance,
                                   join_x_tolerance, join_y_tolerance)
    /\ mg_pc' = "again"
    /\ UNCHANGED <<mg_edges, snap_x_tolerance, snap_y_tolerance,
                   join_x_tolerance, join_y_tolerance, snapped, merged>>
    /\ UNCHANGED notMg

(***************************************************************************)
(* Specification of a merge_edges call followed by a call on its result.   *)
(***************************************************************************)
\* Positions of the lines the generated edges lie on, and snap tolerances:
\* the two positions are in different binades and the non-zero tolerance
\* puts them in one cluster.
Positions == {1, 132}
SnapTolerances == {0, 132}
JoinTolerances == {0, 1}

MergeEdgeSet ==
    {SpanEdge(o, c, q) : o \in {"h", "v"}, c \in Positions, q \in Spans}

MergeInputs == {EdgeSeq(S) : S \in SubsetsUpTo(MergeEdgeSet, MaxMergeEdges)}

MergeInit ==
    /\ mg_edges \in MergeInputs
    /\ snap_x_tolerance \in SnapTolerances
    /\ snap_y_tolerance \in SnapTolerances
    /\ join_x_tolerance \in JoinTolerances
    /\ join_y_tolerance \in JoinTolerances
    /\ snapped = <<>>
    /\ merged = <<>>
    /\ merged_again = <<>>
    /\ mg_pc = "start"
    /\ IdleButMerge

MergeNext == MergeEdges \/ MergeAgain

SpecMerge == MergeInit /\ [][MergeNext]_vars

(***************************************************************************)
(* Table settings (table.py, lines 1-9 and 415-457).  In the model of the  *)
(* table finders every length is counted in hundredths, so that the        *)
(* default settings argument of TableFinder2, snap_tolerance = 1e-2, is    *)
(* the number 1 and the length 3 is 300.  A dict value that may be None is *)
(* None or Num(n).                                                         *)
(***************************************************************************)
Num(n) == <<n>>

DEFAULT_SNAP_TOLERANCE == 300
DEFAULT_JOIN_TOLERANCE == 300
DEFAULT_MIN_WORDS_VERTICAL == 3
DEFAULT_MIN_WORDS_HORIZONTAL == 1

TABLE_STRATEGIES == {"lines", "lines_strict", "text", "explicit"}

DEFAULT_TABLE_SETTINGS ==
    [vertical_strategy         |-> "lines",
     horizontal_strategy       |-> "lines",
     explicit_vertical_lines   |-> <<>>,
     explicit_horizontal_lines |-> <<>>,
     snap_tolerance            |-> Num(DEFAULT_SNAP_TOLERANCE),
     snap_x_tolerance          |-> None,
     snap_y_tolerance          |-> None,
     join_tolerance            |-> Num(DEFAULT_JOIN_TOLERANCE),
     join_x_tolerance          |-> None,
     join_y_tolerance          |-> None,
     edge_min_length           |-> Num(300),
     min_words_vertical        |-> Num(DEFAULT_MIN_WORDS_VERTICAL),
     min_words_horizontal      |-> Num(DEFAULT_MIN_WORDS_HORIZONTAL),
     keep_blank_chars          |-> FALSE,
     text_tolerance            |-> Num(300),
     text_x_tolerance          |-> None,
     text_y_tolerance          |-> None,
     intersection_tolerance    |-> Num(300),
     intersection_x_tolerance  |-> None,
     intersection_y_tolerance  |-> None]

NON_NEGATIVE_SETTINGS ==
    {"snap_tolerance", "snap_x_tolerance", "snap_y_tolerance",
     "join_tolerance", "join_x_tolerance", "join_y_tolerance",
     "edge_min_length", "min_words_vertical", "min_words_horizontal",
     "text_tolerance", "text_x_tolerance", "text_y_tolerance",
     "intersection_tolerance", "intersection_x_tolerance",
     "intersection_y_tolerance"}

\* the (var, fallback) pairs of resolve_table_settings, in their order
Fallbacks ==
    << <<"text_x_tolerance", "text_tolerance">>,
       <<"text_y_tolerance", "text_tolerance">>,
       <<"snap_x_tolerance", "snap_tolerance">>,
       <<"snap_y_tolerance", "snap_tolerance">>,
       <<"join_x_tolerance", "join_tolerance">>,
       <<"join_y_tolerance", "join_tolerance">>,
       <<"intersection_x_tolerance", "intersection_tolerance">>,
       <<"intersection_y_tolerance", "intersection_tolerance">> >>

\* the default value of the settings parameter of each __init__
default_settings_argument(class) ==
    IF class = "TableFinder2" THEN [snap_tolerance |-> Num(1)] ELSE <<>>

\* table_settings.get(setting)
dict_get(d, key) == IF key \in DOMAIN d THEN d[key] ELSE None

\* (value or 0) for a value that is None or a number
or_zero(value) == IF value = None \/ value = Num(0) THEN 0 ELSE value[1]

\* the first check of resolve_table_settings raises
unrecognized_key(table_settings) ==
    \E k \in DOMAIN table_settings : k \notin DOMAIN DEFAULT_TABLE_SETTINGS

\* the second check of resolve_table_settings raises
negative_setting(table_settings) ==
    \E setting \in NON_NEGATIVE_SETTINGS :
        or_zero(dict_get(table_settings, setting)) < 0

\* dict(DEFAULT_TABLE_SETTINGS) updated with table_settings
updated_defaults(table_settings) ==
    [k \in DOMAIN DEFAULT_TABLE_SETTINGS |->
        IF k \in DOMAIN table_settings THEN table_settings[k]
        ELSE DEFAULT_TABLE_SETTINGS[k]]

RECURSIVE apply_fallbacks(_, _)
apply_fallbacks(resolved, i) ==
    IF i > Len(Fallbacks) THEN resolved
    ELSE LET var == Fallbacks[i][1]
             fallback == Fallbacks[i][2]
         IN  apply_fallbacks(
                 IF resolved[var] = None
                 THEN [resolved EXCEPT ![var] = resolved[fallback]]
                 ELSE resolved, i + 1)

\* resolve_table_settings when neither check raises
resolve_table_settings(table_settings) ==
    apply_fallbacks(updated_defaults(table_settings), 1)

(***************************************************************************)
(* utils.filter_edges, utils.objects_to_rect, utils.objects_to_bbox,       *)
(* utils.get_bbox_overlap and table.words_to_edges_h, words_to_edges_v.    *)
(* The string "None" stands for None where the other values are strings.   *)
(***************************************************************************)
\* max(a, b) and min(a, b)
Max2(a, b) == IF a >= b THEN a ELSE b
Min2(a, b) == IF a <= b THEN a ELSE b

MinOf(S) == CHOOSE x \in S : \A y \in S : x <= y
MaxOf(S) == CHOOSE x \in S : \A y \in S : y <= x

\* the test of filter_edges on one edge
filter_edges_test(e, orientation, edge_type, min_length) ==
    LET dim == IF e.orientation = "v" THEN "height" ELSE "width"
    IN  /\ (edge_type # "None" => e.object_type = edge_type)
        /\ (orientation = "None" \/ e.orientation = orientation)
        /\ e[dim] >= min_length

filter_edges(es, orientation, edge_type, min_length) ==
    SelectSeq(es, LAMBDA e : filter_edges_test(e, orientation, edge_type, min_length))

objects_to_rect(objects) ==
    [x0     |-> MinOf({objects[k].x0 : k \in 1..Len(objects)}),
     x1     |-> MaxOf({objects[k].x1 : k \in 1..Len(objects)}),
     top    |-> MinOf({objects[k].top : k \in 1..Len(objects)}),
     bottom |-> MaxOf({objects[k].bottom : k \in 1..Len(objects)})]

objects_to_bbox(objects) ==
    <<MinOf({objects[k].x0 : k \in 1..Len(objects)}),
      MinOf({objects[k].top : k \in 1..Len(objects)}),
      MaxOf({objects[k].x1 : k \in 1..Len(objects)}),
      MaxOf({objects[k].bottom : k \in 1..Len(objects)})>>

bbox_to_rect(bbox) ==
    [x0 |-> bbox[1], top |-> bbox[2], x1 |-> bbox[3], bottom |-> bbox[4]]

\* get_bbox_overlap(a, b) is not None
get_bbox_overlap(a, b) ==
    LET o_left   == Max2(a[1], b[1])
        o_right  == Min2(a[3], b[3])
        o_bottom == Min2(a[4], b[4])
        o_top    == Max2(a[2], b[2])
        o_width  == FlSub(o_right, o_left)
        o_height == FlSub(o_bottom, o_top)
    IN  o_height >= 0 /\ o_width >= 0 /\ FlAdd(o_height, o_width) > 0

\* the two edges words_to_edges_h makes of one rect
row_edges(r, min_x0, max_x1) ==
    << [x0 |-> min_x0, x1 |-> max_x1, top |-> r.top, bottom |-> r.top,
        width |-> FlSub(max_x1, min_x0), orientation |-> "h"],
       [x0 |-> min_x0, x1 |-> max_x1, top |-> r.bottom, bottom |-> r.bottom,
        width |-> FlSub(max_x1, min_x0), orientation |-> "h"] >>

words_to_edges_h(words, word_threshold) ==
    LET by_top == cluster_objects(words, "top", 100)
        large_clusters == SelectSeq(by_top, LAMBDA x : Len(x) >= word_threshold)
        rects == [k \in 1..Len(large_clusters) |-> objects_to_rect(large_clusters[k])]
    IN  IF Len(rects) = 0 THEN <<>>
        ELSE LET min_x0 == MinOf({rects[k].x0 : k \in 1..Len(rects)})
                 max_x1 == MaxOf({rects[k].x1 : k \in 1..Len(rects)})
             IN  Chain([k \in 1..Len(rects) |-> row_edges(rects[k], min_x0, max_x1)])

\* a word with its centerpoint (x0 + x1) / 2 as one more attribute
with_center(w) ==
    [k \in DOMAIN w \cup {"center"} |->
        IF k = "center" THEN FlDiv(FlAdd(w.x0, w.x1), 2) ELSE w[k]]

without_center(w) == [k \in DOMAIN w \ {"center"} |-> w[k]]

\* cluster_objects(words, lambda x: (x["x0"] + x["x1"]) / 2, 1)
cluster_by_center(words) ==
    LET cs == cluster_objects([k \in 1..Len(words) |-> with_center(words[k])],
                              "center", 100)
    IN  [i \in 1..Len(cs) |-> [k \in 1..Len(cs[i]) |-> without_center(cs[i][k])]]

\* sorted(clusters, key=lambda x: -len(x)), a stable sort
RECURSIVE SortByLenDesc(_)
SortByLenDesc(s) ==
    IF s = <<>> THEN <<>>
    ELSE LET r == SortByLenDesc(SubSeq(s, 1, Len(s) - 1))
             e == s[Len(s)]
             k == Cardinality({j \in 1..Len(r) : Len(r[j]) >= Len(e)})
         IN  SubSeq(r, 1, k) \o <<e>> \o SubSeq(r, k + 1, Len(r))

\* the loop that condenses overlapping bboxes, from bbox i on
RECURSIVE condense(_, _, _)
condense(bboxes, condensed_bboxes, i) ==
    IF i > Len(bboxes) THEN condensed_bboxes
    ELSE IF \E k \in 1..Len(condensed_bboxes) :
               get_bbox_overlap(bboxes[i], condensed_bboxes[k])
         THEN condense(bboxes, condensed_bboxes, i + 1)
         ELSE condense(bboxes, Append(condensed_bboxes, bboxes[i]), i + 1)

\* sorted(rects, key=itemgetter("x0")), a stable sort
RECURSIVE SortByX0(_)
SortByX0(s) ==
    IF s = <<>> THEN <<>>
    ELSE LET r == SortByX0(SubSeq(s, 1, Len(s) - 1))
             e == s[Len(s)]
             k == Cardinality({j \in 1..Len(r) : r[j].x0 <= e.x0})
         IN  SubSeq(r, 1, k) \o <<e>> \o SubSeq(r, k + 1, Len(r))

\* the bboxes of the clusters of at least word_threshold words
large_bboxes(sorted_clusters, word_threshold) ==
    LET large_clusters == SelectSeq(sorted_clusters, LAMBDA x : Len(x) >= word_threshold)
    IN  [k \in 1..Len(large_clusters) |-> objects_to_bbox(large_clusters[k])]

\* the edges words_to_edges_v returns for its sorted rects: the left side of
\* each rect and the right side of the rightmost
rect_edges(sorted_rects) ==
    LET n == Len(sorted_rects)
        max_x1 == MaxOf({sorted_rects[k].x1 : k \in 1..n})
        min_top == MinOf({sorted_rects[k].top : k \in 1..n})
        max_bottom == MaxOf({sorted_rects[k].bottom : k \in 1..n})
    IN  [k \in 1..(n + 1) |->
           [x0 |-> IF k <= n THEN sorted_rects[k].x0 ELSE max_x1,
            x1 |-> IF k <= n THEN sorted_rects[k].x0 ELSE max_x1,
            top |-> min_top, bottom |-> max_bottom,
            height |-> FlSub(max_bottom, min_top),
            orientation |-> "v"]]

\* words_to_edges_v from its condensed bboxes on
condensed_edges(condensed_bboxes) ==
    IF Len(condensed_bboxes) = 0 THEN <<>>
    ELSE rect_edges(SortByX0([k \in 1..Len(condensed_bboxes) |->
                                 bbox_to_rect(condensed_bboxes[k])]))

\* clusters of words by x0, by x1 and by centerpoint, the larger ones first,
\* then the bboxes of the large ones, condensed, and the edges of these
words_to_edges_v(words, word_threshold) ==
    condensed_edges(
        condense(
            large_bboxes(
                SortByLenDesc(cluster_objects(words, "x0", 100)
                              \o cluster_objects(words, "x1", 100)
                              \o cluster_by_center(words)),
                word_threshold),
            <<>>, 1))

(***************************************************************************)
(* TableFinder.get_edges and TableFinder2.get_edges (the same code).  A    *)
(* page is a record of bbox, width, height, edges, chars and words, where  *)
(* words is what page.extract_words returns.  Explicit lines are numbers.  *)
(***************************************************************************)
\* variant of bad_strategy that asks for one explicit line
bad_strategy_OneLine(settings, name) ==
    LET strategy == settings[name \o "_strategy"]
    IN  \/ strategy \notin TABLE_STRATEGIES
        \/ /\ strategy = "explicit"
           /\ Len(settings["explicit_" \o name \o "_lines"]) < 1

\* the check of get_edges on the strategy of one axis raises
bad_strategy(settings, name) ==
    LET strategy == settings[name \o "_strategy"]
    IN  \/ strategy \notin TABLE_STRATEGIES
        \/ /\ strategy = "explicit"
           /\ Len(settings["explicit_" \o name \o "_lines"]) < 2

get_edges_raises(settings) ==
    bad_strategy(settings, "vertical") \/ bad_strategy(settings, "horizontal")

v_explicit(page, settings) ==
    LET descs == settings.explicit_vertical_lines
    IN  [k \in 1..Len(descs) |->
            [x0 |-> descs[k], x1 |-> descs[k],
             top |-> page.bbox[2], bottom |-> page.bbox[4],
             height |-> FlSub(page.bbox[4], page.bbox[2]),
             orientation |-> "v"]]

h_explicit(page, settings) ==
    LET descs == settings.explicit_horizontal_lines
    IN  [k \in 1..Len(descs) |->
            [x0 |-> page.bbox[1], x1 |-> page.bbox[3],
             width |-> FlSub(page.bbox[3], page.bbox[1]),
             top |-> descs[k], bottom |-> descs[k],
             orientation |-> "h"]]

v_base(page, settings) ==
    LET v_strat == settings.vertical_strategy
    IN  CASE v_strat = "lines" -> filter_edges(page.edges, "v", "None", 100)
          [] v_strat = "lines_strict" -> filter_edges(page.edges, "v", "line", 100)
          [] v_strat = "text" ->
               words_to_edges_v(page.words, settings.min_words_vertical[1])
          [] v_strat = "explicit" -> <<>>

h_base(page, settings) ==
    LET h_strat == settings.horizontal_strategy
    IN  CASE h_strat = "lines" -> filter_edges(page.edges, "h", "None", 100)
          [] h_strat = "lines_strict" -> filter_edges(page.edges, "h", "line", 100)
          [] h_strat = "text" ->
               words_to_edges_h(page.words, settings.min_words_horizontal[1])
          [] h_strat = "explicit" -> <<>>

\* the edges get_edges hands to merge_edges
unmerged_edges(page, settings) ==
    (v_base(page, settings) \o v_explicit(page, settings))
    \o (h_base(page, settings) \o h_explicit(page, settings))

\* get_edges when its checks pass
get_edges(page, settings) ==
    filter_edges(
        merge_edges(unmerged_edges(page, settings),
                    settings.snap_x_tolerance[1], settings.snap_y_tolerance[1],
                    settings.join_x_tolerance[1], settings.join_y_tolerance[1]),
        "None", "None", settings.edge_min_length[1])

(***************************************************************************)
(* cells_to_tables as one function, class Table (its constructor, rows and *)
(* extract), utils.extract_text and utils.collate_line.  A text is Str(s)  *)
(* for the list s of its characters, so that the empty text Str(<<>>) is   *)
(* not None.                                                               *)
(***************************************************************************)
\* the while loop of cells_to_tables from one iteration on
RECURSIVE TablePasses(_, _, _, _)
TablePasses(cs, tabs, cur, n) ==
    LET initial_cell_count == Len(cur.cells)
        r == ScanCells(cs, cur, n, 1)
    IN  IF r.n_assigned = Len(cs)
        THEN [tables |-> tabs, current_table |-> r.current_table]
        ELSE IF Len(r.current_table.cells) = initial_cell_count
        THEN TablePasses(r.cells, Append(tabs, r.current_table),
                         init_new_table, r.n_assigned)
        ELSE TablePasses(r.cells, tabs, r.current_table, r.n_assigned)

cells_to_tables(bboxes) ==
    LET r    == TablePasses(MakeCells(bboxes), <<>>, init_new_table, 0)
        all  == IF Len(r.current_table.cells) > 0
                THEN Append(r.tables, r.current_table) ELSE r.tables
        kept == SelectSeq(SortTables(all), KeepTable)
    IN  [k \in 1..Len(kept) |-> kept[k].cells]

\* variant of cells_bbox that takes the bbox of the first cell
cells_bbox_FirstCell(cs) == cs[1]

\* (min x0, min top, max x1, max bottom) over a non-empty list of cells
cells_bbox(cs) ==
    <<MinOf({cs[k][1] : k \in 1..Len(cs)}), MinOf({cs[k][2] : k \in 1..Len(cs)}),
      MaxOf({cs[k][3] : k \in 1..Len(cs)}), MaxOf({cs[k][4] : k \in 1..Len(cs)})>>

\* Table(page, cells): the page is the page of the finder
Table(cs) == [cells |-> cs, bbox |-> cells_bbox(cs)]

\* CellGroup(cells): the bbox is taken over the cells that are not None
CellGroup(cs) ==
    [cells |-> cs, bbox |-> cells_bbox(SelectSeq(cs, LAMBDA c : c # None))]

\* sorted(cells, key=itemgetter(1, 0)), a stable sort
RECURSIVE SortByTopLeft(_)
SortByTopLeft(s) ==
    IF s = <<>> THEN <<>>
    ELSE LET r == SortByTopLeft(SubSeq(s, 1, Len(s) - 1))
             e == s[Len(s)]
             k == Cardinality({j \in 1..Len(r) :
                     r[j][2] < e[2] \/ (r[j][2] = e[2] /\ r[j][1] <= e[1])})
         IN  SubSeq(r, 1, k) \o <<e>> \o SubSeq(r, k + 1, Len(r))

\* xdict.get(x) for the dict made of the cells of one row: the last cell of
\* the row with that x0, or None
xdict_get(row_cells, x) ==
    LET K == {k \in 1..Len(row_cells) : row_cells[k][1] = x}
    IN  IF K = {} THEN None ELSE row_cells[MaxOf(K)]

\* variant of Table_rows that makes its columns of the x0 of the row's cells
Table_rows_OwnColumns(table) ==
    LET _sorted == SortByTopLeft(table.cells)
        ys == SortNums(ListOfSet({table.cells[k][2] : k \in 1..Len(table.cells)}))
    IN  [i \in 1..Len(ys) |->
            LET row_cells == SelectSeq(_sorted, LAMBDA c : c[2] = ys[i])
                xs == SortNums(ListOfSet({row_cells[k][1] : k \in 1..Len(row_cells)}))
            IN  CellGroup([j \in 1..Len(xs) |-> xdict_get(row_cells, xs[j])])]

\* Table.rows: groupby over the sorted cells gives one group per distinct
\* top, in ascending order
Table_rows(table) ==
    LET _sorted == SortByTopLeft(table.cells)
        xs == SortNums(ListOfSet({table.cells[k][1] : k \in 1..Len(table.cells)}))
        ys == SortNums(ListOfSet({table.cells[k][2] : k \in 1..Len(table.cells)}))
    IN  [i \in 1..Len(ys) |->
            LET row_cells == SelectSeq(_sorted, LAMBDA c : c[2] = ys[i])
            IN  CellGroup([j \in 1..Len(xs) |-> xdict_get(row_cells, xs[j])])]

Str(s) == <<s>>

DEFAULT_X_TOLERANCE == 300
DEFAULT_Y_TOLERANCE == 300

\* char_in_bbox with a test that is closed on the right and lower sides
char_in_bbox_Closed(char, bbox) ==
    LET v_mid == FlDiv(FlAdd(char.top, char.bottom), 2)
        h_mid == FlDiv(FlAdd(char.x0, char.x1), 2)
    IN  h_mid >= bbox[1] /\ h_mid <= bbox[3] /\ v_mid >= bbox[2] /\ v_mid <= bbox[4]

char_in_bbox(char, bbox) ==
    LET v_mid == FlDiv(FlAdd(char.top, char.bottom), 2)
        h_mid == FlDiv(FlAdd(char.x0, char.x1), 2)
    IN  h_mid >= bbox[1] /\ h_mid < bbox[3] /\ v_mid >= bbox[2] /\ v_mid < bbox[4]

\* the loop of collate_line over the sorted chars, from char i on
RECURSIVE collate_from(_, _, _, _, _)
collate_from(cs, i, coll, last_x1, tolerance) ==
    IF i > Len(cs) THEN coll
    ELSE LET gap == last_x1 # None /\ cs[i].x0 > FlAdd(last_x1[1], tolerance)
         IN  collate_from(cs, i + 1,
                 (IF gap THEN Append(coll, " ") ELSE coll) \o <<cs[i].text>>,
                 Num(cs[i].x1), tolerance)

collate_line(line_chars, tolerance) ==
    collate_from(SortByX0(line_chars), 1, <<>>, None, tolerance)

\* "\n".join(lines)
RECURSIVE join_lines(_)
join_lines(lines) ==
    IF lines = <<>> THEN <<>>
    ELSE IF Len(lines) = 1 THEN lines[1]
    ELSE lines[1] \o <<"\n">> \o join_lines(SubSeq(lines, 2, Len(lines)))

\* extract_text(chars, x_tolerance=..., y_tolerance=...), layout=False
extract_text(chars, x_tol, y_tol) ==
    IF Len(chars) = 0 THEN <<>>
    ELSE LET doctop_clusters == cluster_objects(chars, "doctop", y_tol)
         IN  join_lines([k \in 1..Len(doctop_clusters) |->
                            collate_line(doctop_clusters[k], x_tol)])

Whitespace == {" ", "\n"}

\* str.strip()
RECURSIVE strip(_)
strip(s) ==
    IF s = <<>> THEN s
    ELSE IF s[1] \in Whitespace THEN strip(SubSeq(s, 2, Len(s)))
    ELSE IF s[Len(s)] \in Whitespace THEN strip(SubSeq(s, 1, Len(s) - 1))
    ELSE s

\* the chars of the page whose midpoint lies in the bbox of a row
row_chars(chars, row) ==
    SelectSeq(chars, LAMBDA char : char_in_bbox(char, row.bbox))

\* the chars of a row whose midpoint lies in a cell of the row
cell_chars(chars_of_row, cell) ==
    SelectSeq(chars_of_row, LAMBDA char : char_in_bbox(char, cell))

\* the entry of one cell of a row in Table.extract
cell_text(cell, chars_of_row, x_tol, y_tol) ==
    IF cell = None THEN None
    ELSE IF Len(cell_chars(chars_of_row, cell)) # 0
         THEN Str(strip(extract_text(cell_chars(chars_of_row, cell), x_tol, y_tol)))
         ELSE Str(<<>>)

\* Table.extract with its default tolerances
Table_extract(page, table) ==
    LET rows == Table_rows(table)
    IN  [i \in 1..Len(rows) |->
            [j \in 1..Len(rows[i].cells) |->
                cell_text(rows[i].cells[j], row_chars(page.chars, rows[i]),
                          DEFAULT_X_TOLERANCE, DEFAULT_Y_TOLERANCE)]]

(***************************************************************************)
(* The filters of TableFinder2 and the functions they call.  A comparison  *)
(* with a fraction of the page size, x < 0.95 * w, is made on the          *)
(* hundredfold of both sides, 100 * x < 95 * w.                            *)
(***************************************************************************)
\* edge["width"] or edge["height"] is read in an edge without that key
too_long_KeyError(page, es) ==
    \E k \in 1..Len(es) :
        \/ "width" \notin DOMAIN es[k]
        \/ /\ 100 * es[k].width < 95 * page.width
           /\ "height" \notin DOMAIN es[k]

\* TableFinder2.remove_too_long_edges with ratio = 0.95
remove_too_long_edges(page, es) ==
    SelectSeq(es, LAMBDA edge : /\ 100 * edge.width < 95 * page.width
                                /\ 100 * edge.height < 95 * page.height)

\* TableFinder2.remove_terminal_edges
remove_terminal_edges(page, es) ==
    SelectSeq(es, LAMBDA edge :
        ~ \/ 100 * edge.x0 <= 3 * page.height
            \/ 100 * edge.x1 >= 97 * page.width
            \/ 100 * edge.top <= 3 * page.height
            \/ 100 * edge.bottom >= 97 * page.height)

\* table.get_min_char_size: (min_width, min_height)
get_min_char_size(page) ==
    <<MinOf({page.width} \cup {page.chars[k].width : k \in 1..Len(page.chars)}),
      MinOf({page.height} \cup {page.chars[k].height : k \in 1..Len(page.chars)})>>

\* table.get_cell_size: (width, height)
get_cell_size(cell) == <<FlSub(cell[3], cell[1]), FlSub(cell[4], cell[2])>>

\* TableFinder2.remove_too_small_cells
remove_too_small_cells(page, cs) ==
    LET min_char == get_min_char_size(page)
    IN  SelectSeq(cs, LAMBDA cell : /\ get_cell_size(cell)[1] > min_char[1]
                                    /\ get_cell_size(cell)[2] > min_char[2])

\* The loop of table.overlap_bboxes from event i on.  Every box has
\* x0 <= x1, so its exit comes after its entry and remove() finds it.
RECURSIVE overlap_sweep(_, _, _, _, _, _, _)
overlap_sweep(l1, l2, events, i, sweeping1, sweeping2, pairs) ==
    IF i > Len(events) THEN pairs
    ELSE LET ev == events[i]
             me == TableEntry(IF ev[1] = "box1" THEN l1 ELSE l2, ev[3])
         IN  CASE ev[1] = "box1" /\ ev[4] = 0 ->
                    LET sel == SelectSeq(sweeping2, LAMBDA b2 : TableHit(me, b2))
                    IN  overlap_sweep(l1, l2, events, i + 1, Append(sweeping1, me),
                            sweeping2,
                            pairs \o [k \in 1..Len(sel) |-> <<me[1], sel[k][1]>>])
               [] ev[1] = "box1" /\ ev[4] = 1 ->
                    overlap_sweep(l1, l2, events, i + 1, RemoveFirst(sweeping1, me),
                            sweeping2, pairs)
               [] ev[1] = "box2" /\ ev[4] = 0 ->
                    LET sel == SelectSeq(sweeping1, LAMBDA b1 : TableHit(b1, me))
                    IN  overlap_sweep(l1, l2, events, i + 1, sweeping1,
                            Append(sweeping2, me),
                            pairs \o [k \in 1..Len(sel) |-> <<sel[k][1], me[1]>>])
               [] ev[1] = "box2" /\ ev[4] = 1 ->
                    overlap_sweep(l1, l2, events, i + 1, sweeping1,
                            RemoveFirst(sweeping2, me), pairs)

overlap_bboxes(l1, l2) ==
    overlap_sweep(l1, l2, MakeEvents(l1, l2), 1, <<>>, <<>>, <<>>)

\* TableFinder2.remove_table_without_chars(tables, chars)
remove_table_without_chars(ts, chars) ==
    LET tables_bbox == [k \in 1..Len(ts) |-> ts[k].bbox]
        chars_bbox  == [k \in 1..Len(chars) |-> obj_to_bbox(chars[k])]
        overlaps    == overlap_bboxes(tables_bbox, chars_bbox)
        idx_tables_with_overlap == {overlaps[k][1] : k \in 1..Len(overlaps)}
    IN  Pick(ts, {i \in 1..Len(ts) : (i - 1) \in idx_tables_with_overlap}, 1)

\* TableFinder2.remove_table_with_unusual_shape
remove_table_with_unusual_shape(ts) ==
    SelectSeq(ts, LAMBDA table :
        LET n == Len(table.cells)
            cell_widths  == {get_cell_size(table.cells[k])[1] : k \in 1..n}
            cell_heights == {get_cell_size(table.cells[k])[2] : k \in 1..n}
        IN  ~ (Cardinality(cell_widths) = n /\ Cardinality(cell_heights) = n))

\* table.get_cell_nums: (n_col, n_row)
get_cell_nums(table) ==
    <<Cardinality({<<table.cells[k][1], table.cells[k][3]>> : k \in 1..Len(table.cells)}),
      Cardinality({<<table.cells[k][2], table.cells[k][4]>> : k \in 1..Len(table.cells)})>>

\* TableFinder2.remove_table_with_single_col_row
remove_table_with_single_col_row(page, ts) ==
    SelectSeq(ts, LAMBDA table :
        LET n == get_cell_nums(table)
            first == get_cell_size(table.cells[1])
        IN  /\ ~ (n[1] = 1 /\ 100 * first[1] < 3 * page.width)
            /\ ~ (n[2] = 1 /\ 100 * first[2] < 2 * page.height))

(***************************************************************************)
(* TableFinder.__init__ and TableFinder2.__init__, one action for each     *)
(* statement, then Table.rows and Table.extract on the tables found.       *)
(***************************************************************************)
\* the settings the constructor works with: the argument or its default
table_settings == IF tf_given THEN tf_arg ELSE default_settings_argument(tf_class)

finder_unchanged(changed) ==
    /\ UNCHANGED <<tf_class, tf_given, tf_arg, tf_page>>
    /\ IF "settings" \in changed THEN TRUE ELSE UNCHANGED tf_settings
    /\ IF "edges" \in changed THEN TRUE ELSE UNCHANGED tf_edges
    /\ IF "intersections" \in changed THEN TRUE ELSE UNCHANGED tf_intersections
    /\ IF "cells" \in changed THEN TRUE ELSE UNCHANGED tf_cells
    /\ IF "cells_dev" \in changed THEN TRUE ELSE UNCHANGED tf_cells_dev
    /\ IF "tables" \in changed THEN TRUE ELSE UNCHANGED tf_tables
    /\ IF "rows" \in changed THEN TRUE ELSE UNCHANGED tf_rows
    /\ IF "extracted" \in changed THEN TRUE ELSE UNCHANGED tf_extracted
    /\ IF "error" \in changed THEN TRUE ELSE UNCHANGED tf_error
    /\ tf_assigned' = tf_assigned \cup
           (changed \cap {"settings", "edges", "intersections", "cells",
                          "cells_dev", "tables"})
    /\ UNCHANGED notTf

\* self.settings = self.resolve_table_settings(settings)
ResolveSettings ==
    /\ tf_pc = "resolve_table_settings"
    /\ IF unrecognized_key(table_settings)
       THEN /\ tf_pc' = "ValueError"
            /\ tf_error' = "Unrecognized table setting"
            /\ finder_unchanged({"error"})
       ELSE IF negative_setting(table_settings)
       THEN /\ tf_pc' = "ValueError"
            /\ tf_error' = "cannot be negative"
            /\ finder_unchanged({"error"})
       ELSE /\ tf_settings' = resolve_table_settings(table_settings)
            /\ tf_pc' = "get_edges"
            /\ finder_unchanged({"settings"})

\* self.edges = self.get_edges()
GetEdges ==
    /\ tf_pc = "get_edges"
    /\ IF get_edges_raises(tf_settings)
       THEN /\ tf_pc' = "ValueError"
            /\ tf_error' = "strategy"
            /\ finder_unchanged({"error"})
       ELSE /\ tf_edges' = get_edges(tf_page, tf_settings)
            /\ tf_pc' = IF tf_class = "TableFinder2"
                        THEN "remove_too_long_edges" ELSE "edges_to_intersections"
            /\ finder_unchanged({"edges"})

\* self.edges = self.remove_too_long_edges(self.page, self.edges)
RemoveTooLongEdges ==
    /\ tf_pc = "remove_too_long_edges"
    /\ IF too_long_KeyError(tf_page, tf_edges)
       THEN /\ tf_pc' = "KeyError"
            /\ tf_error' = "width or height"
            /\ finder_unchanged({"error"})
       ELSE /\ tf_edges' = remove_too_long_edges(tf_page, tf_edges)
            /\ tf_pc' = "remove_terminal_edges"
            /\ finder_unchanged({"edges"})

\* self.edges = self.remove_terminal_edges(self.page, self.edges)
RemoveTerminalEdges ==
    /\ tf_pc = "remove_terminal_edges"
    /\ tf_edges' = remove_terminal_edges(tf_page, tf_edges)
    /\ tf_pc' = "edges_to_intersections"
    /\ finder_unchanged({"edges"})

\* self.intersections = edges_to_intersections(self.edges, ...)
FinderIntersections ==
    /\ tf_pc = "edges_to_intersections"
    /\ tf_intersections' =
          edges_to_intersections(tf_edges, tf_settings.intersection_x_tolerance[1],
                                 tf_settings.intersection_y_tolerance[1])
    /\ tf_pc' = "intersections_to_cells"
    /\ finder_unchanged({"intersections"})

\* self.cells = intersections_to_cells(self.intersections)
FinderCells ==
    /\ tf_pc = "intersections_to_cells"
    /\ tf_cells' = intersections_to_cells(tf_intersections)
    /\ tf_pc' = IF tf_class = "TableFinder2"
                THEN "remove_too_small_cells" ELSE "cells_to_tables"
    /\ finder_unchanged({"cells"})

\* self.cells_dev = self.remove_too_small_cells(self.cells)
RemoveTooSmallCells ==
    /\ tf_pc = "remove_too_small_cells"
    /\ tf_cells_dev' = remove_too_small_cells(tf_page, tf_cells)
    /\ tf_pc' = "cells_to_tables"
    /\ finder_unchanged({"cells_dev"})

\* self.tables = [Table(self.page, t) for t in cells_to_tables(...)]
FinderTables ==
    /\ tf_pc = "cells_to_tables"
    /\ LET found == cells_to_tables(IF tf_class = "TableFinder2"
                                    THEN tf_cells_dev ELSE tf_cells)
       IN  /\ tf_tables' = [k \in 1..Len(found) |-> Table(found[k])]
           /\ tf_pc' = IF tf_class = "TableFinder2" /\ Len(found) > 0
                       THEN "remove_table_without_chars" ELSE "done"
    /\ finder_unchanged({"tables"})

RemoveTableWithoutChars ==
    /\ tf_pc = "remove_table_without_chars"
    /\ tf_tables' = remove_table_without_chars(tf_tables, tf_page.words)
    /\ tf_pc' = "remove_table_with_unusual_shape"
    /\ finder_unchanged({"tables"})

RemoveTableWithUnusualShape ==
    /\ tf_pc = "remove_table_with_unusual_shape"
    /\ tf_tables' = remove_table_with_unusual_shape(tf_tables)
    /\ tf_pc' = "remove_table_with_single_col_row"
    /\ finder_unchanged({"tables"})

RemoveTableWithSingleColRow ==
    /\ tf_pc = "remove_table_with_single_col_row"
    /\ tf_tables' = remove_table_with_single_col_row(tf_page, tf_tables)
    /\ tf_pc' = "done"
    /\ finder_unchanged({"tables"})

\* table.rows for every table of the finder
TableRows ==
    /\ tf_pc = "done"
    /\ tf_rows' = [k \in 1..Len(tf_tables) |-> Table_rows(tf_tables[k])]
    /\ tf_pc' = "rows"
    /\ finder_unchanged({"rows"})

\* table.extract() for every table of the finder
TableExtract ==
    /\ tf_pc = "rows"
    /\ tf_extracted' = [k \in 1..Len(tf_tables) |-> Table_extract(tf_page, tf_tables[k])]
    /\ tf_pc' = "extracted"
    /\ finder_unchanged({"extracted"})

(***************************************************************************)
(* Specification of the construction of a table finder.  Pages: a unit     *)
(* square bisected both ways (100 hundredths wide), grids that lie inside  *)
(* a page of 128 x 128 hundredths, and a page of 1024 x 1024 hundredths    *)
(* whose lines are far enough apart for the default tolerances.            *)
(***************************************************************************)
PageEdge(e, type) ==
    [k \in DOMAIN e \cup {"object_type"} |-> IF k = "object_type" THEN type ELSE e[k]]

Lines(es) == [k \in 1..Len(es) |-> PageEdge(es[k], "line")]

Char(text, x0, top, x1, bottom) ==
    [text |-> text, x0 |-> x0, x1 |-> x1, top |-> top, bottom |-> bottom,
     doctop |-> top, width |-> x1 - x0, height |-> bottom - top]

Word(text, x0, top, x1, bottom) ==
    [text |-> text, x0 |-> x0, x1 |-> x1, top |-> top, bottom |-> bottom]

Page(w, h, es, chars, words) ==
    [bbox |-> <<0, 0, w, h>>, width |-> w, height |-> h,
     edges |-> es, chars |-> chars, words |-> words]

UnitSquareEdges ==
    << VEdge(0, 0, 100), VEdge(50, 0, 100), VEdge(100, 0, 100),
       HEdge(0, 0, 100), HEdge(50, 0, 100), HEdge(100, 0, 100) >>

\* "ab" in the top left cell, " c" in the top right cell, nothing in the
\* bottom left cell, "d" and "e" in the bottom right cell
UnitSquareChars ==
    << Char("a", 10, 10, 20, 20), Char("b", 22, 10, 32, 20),
       Char(" ", 60, 10, 70, 20), Char("c", 72, 10, 82, 20),
       Char("e", 72, 80, 82, 90), Char("d", 60, 60, 70, 70) >>

UnitSquareWords ==
    << Word("ab", 10, 10, 32, 20), Word("c", 72, 10, 82, 20),
       Word("d", 60, 60, 70, 70), Word("e", 72, 80, 82, 90) >>

UnitSquarePage ==
    Page(100, 100, Lines(UnitSquareEdges), UnitSquareChars, UnitSquareWords)

\* three cells in the shape of an L, inside a page of 512 x 512 hundredths;
\* two of the lines are sides of a rect
LShapeEdges ==
    << PageEdge(VEdge(64, 64, 320), "line"), PageEdge(VEdge(192, 64, 320), "line"),
       PageEdge(VEdge(320, 64, 192), "rect_edge"),
       PageEdge(HEdge(64, 64, 320), "line"), PageEdge(HEdge(192, 64, 320), "line"),
       PageEdge(HEdge(320, 64, 192), "rect_edge") >>

LShapeChars == << Char("x", 80, 80, 120, 120), Char("y", 80, 240, 112, 280) >>
LShapeWords == << Word("x", 80, 80, 120, 120), Word("y", 80, 240, 112, 280) >>

LShapePage == Page(512, 512, LShapeEdges, LShapeChars, LShapeWords)

\* three cells in a row in a page of 1024 x 1024 hundredths; the leftmost
\* line is on the left border of the page, and the lines are further
\* apart than the default tolerances
RowEdges ==
    << VEdge(0, 64, 448), VEdge(320, 64, 448), VEdge(640, 64, 448),
       VEdge(960, 64, 448), HEdge(64, 64, 960), HEdge(448, 64, 960) >>

RowPage ==
    Page(1024, 1024, Lines(RowEdges),
         << Char("x", 400, 128, 464, 192) >>, << Word("x", 400, 128, 464, 192) >>)

\* the same lines with the only char below them
AsidePage ==
    Page(1024, 1024, Lines(RowEdges),
         << Char("x", 400, 600, 464, 664) >>, << Word("x", 400, 600, 464, 664) >>)

\* two cells whose sides are longer than the default edge_min_length and
\* further apart than the default tolerances
BigEdges ==
    << VEdge(64, 64, 448), VEdge(448, 64, 448), VEdge(832, 64, 448),
       HEdge(64, 64, 832), HEdge(448, 64, 832) >>

BigPage ==
    Page(1024, 1024, Lines(BigEdges),
         << Char("z", 128, 128, 192, 192) >>, << Word("z", 128, 128, 192, 192) >>)

EmptyPage == Page(128, 128, <<>>, <<>>, <<>>)

\* words in two columns and two lines, no lines drawn
TextWords ==
    << Word("p", 16, 16, 24, 24), Word("q", 48, 16, 56, 24),
       Word("r", 16, 40, 24, 48), Word("s", 48, 40, 56, 48) >>

TextPage ==
    Page(128, 128, <<>>,
         [k \in 1..Len(TextWords) |->
             Char(TextWords[k].text, TextWords[k].x0, TextWords[k].top,
                  TextWords[k].x1, TextWords[k].bottom)],
         TextWords)

\* the dict {key: value}, and a dict updated with another
Single(key, value) == [k \in {key} |-> value]
Updated(d, e) ==
    [k \in DOMAIN d \cup DOMAIN e |-> IF k \in DOMAIN e THEN e[k] ELSE d[k]]

BaseTolerances ==
    {"snap_tolerance", "join_tolerance", "text_tolerance", "intersection_tolerance"}
AxisTolerances == {Fallbacks[i][1] : i \in 1..Len(Fallbacks)}

\* The values a settings argument gives to a key: a number for a base
\* tolerance, a length or a count, a number or None for the tolerance of one
\* axis, lists of numbers for the explicit lines.
SettingValues(key) ==
    CASE key \in {"vertical_strategy", "horizontal_strategy"} ->
             TABLE_STRATEGIES \cup {"stream"}
      [] key \in {"explicit_vertical_lines", "explicit_horizontal_lines"} ->
             {<<>>, <<32>>, <<16, 48>>}
      [] key \in AxisTolerances -> {None, Num(0 - 1), Num(0), Num(1)}
      [] key \in NON_NEGATIVE_SETTINGS \ AxisTolerances ->
             {Num(0 - 1), Num(0), Num(1)}
      [] key = "keep_blank_chars" -> {TRUE, FALSE}
      [] OTHER -> {Num(1)}

\* settings with which the lines of the small pages stay where they are
SmallSettings ==
    [snap_tolerance |-> Num(0), join_tolerance |-> Num(0),
     edge_min_length |-> Num(0), intersection_tolerance |-> Num(0)]

\* one key, recognized or not
OneKeySettings ==
    UNION {{Single(key, v) : v \in SettingValues(key)} :
              key \in DOMAIN DEFAULT_TABLE_SETTINGS \cup {"bogus_setting"}}

\* a base tolerance together with the tolerance of one of its axes
BaseAndAxisSettings ==
    UNION {{Updated(Single(Fallbacks[i][2], b), Single(Fallbacks[i][1], a)) :
               b \in {Num(0), Num(1)}, a \in SettingValues(Fallbacks[i][1])} :
              i \in 1..Len(Fallbacks)}

\* the strategies of the two axes with explicit lines for both
StrategySettings ==
    {Updated(SmallSettings,
             [vertical_strategy |-> v, horizontal_strategy |-> h,
              explicit_vertical_lines |-> l, explicit_horizontal_lines |-> l]) :
        v \in SettingValues("vertical_strategy"),
        h \in SettingValues("horizontal_strategy"),
        l \in SettingValues("explicit_vertical_lines")}

SettingsArguments ==
    {<<>>, SmallSettings} \cup OneKeySettings \cup BaseAndAxisSettings
        \cup StrategySettings

\* the unit square with chars whose midpoint lies on the line between two
\* cells: between the upper cells, between the left cells, and on the
\* crossing of the two inner lines
BorderChars ==
    << Char("m", 45, 10, 55, 20), Char("n", 10, 45, 20, 55),
       Char("o", 45, 45, 55, 55) >>

BorderPage ==
    Page(100, 100, Lines(UnitSquareEdges), BorderChars,
         [k \in 1..Len(BorderChars) |->
             Word(BorderChars[k].text, BorderChars[k].x0, BorderChars[k].top,
                  BorderChars[k].x1, BorderChars[k].bottom)])

Pages ==
    {UnitSquarePage, LShapePage, RowPage, AsidePage, BigPage, EmptyPage, TextPage,
     BorderPage}

\* every page made of some of the lines of the unit square
UnitSquareSubPages ==
    {Page(100, 100, Lines(Pick(UnitSquareEdges, I, 1)), UnitSquareChars,
          UnitSquareWords) : I \in SUBSET (1..Len(UnitSquareEdges))}

\* (given, settings argument, page) of a call
FinderInputs ==
    ({TRUE} \X SettingsArguments \X {UnitSquarePage, TextPage})
    \cup ({TRUE} \X {SmallSettings} \X (Pages \cup UnitSquareSubPages))
    \cup ({TRUE} \X {<<>>} \X Pages)
    \cup ({FALSE} \X {<<>>} \X Pages)

FinderInit ==
    /\ tf_class \in {"TableFinder", "TableFinder2"}
    /\ \E in \in FinderInputs :
          /\ tf_given = in[1]
          /\ tf_arg = in[2]
          /\ tf_page = in[3]
    /\ tf_assigned = {}
    /\ tf_settings = <<>>
    /\ tf_edges = <<>>
    /\ tf_intersections = <<>>
    /\ tf_cells = <<>>
    /\ tf_cells_dev = <<>>
    /\ tf_tables = <<>>
    /\ tf_rows = <<>>
    /\ tf_extracted = <<>>
    /\ tf_error = ""
    /\ tf_pc = "resolve_table_settings"
    /\ IdleButFinder

FinderNext ==
    \/ ResolveSettings \/ GetEdges
    \/ RemoveTooLongEdges \/ RemoveTerminalEdges
    \/ FinderIntersections \/ FinderCells \/ RemoveTooSmallCells
    \/ FinderTables
    \/ RemoveTableWithoutChars \/ RemoveTableWithUnusualShape
    \/ RemoveTableWithSingleColRow
    \/ TableRows \/ TableExtract

SpecFinder == FinderInit /\ [][FinderNext]_vars

(***************************************************************************)
(* Properties of the overlap engine.                                       *)
(***************************************************************************)
PairDomain == (0..(Len(bbox_list1) - 1)) \X (0..(Len(bbox_list2) - 1))

\* area of the intersection of two closed boxes is strictly positive
PositiveArea(a, b) ==
    /\ Min2(a[3], b[3]) - Max2(a[1], b[1]) > 0
    /\ Min2(a[4], b[4]) - Max2(a[2], b[2]) > 0

\* the closed boxes meet, but only along a side or at a corner of both
SharesOnlyBoundary(a, b) ==
    /\ Max2(a[1], b[1]) <= Min2(a[3], b[3])
    /\ Max2(a[2], b[2]) <= Min2(a[4], b[4])
    /\ \/ a[3] = b[1] \/ b[3] = a[1] \/ a[4] = b[2] \/ b[4] = a[2]
    /\ ~PositiveArea(a, b)

ExamplePairs == {<<0, 0>>, <<0, 3>>, <<1, 3>>, <<2, 3>>}

\* C1: get_overlapped_bboxes_pairs returns (i, j) exactly when A[i] and B[j]
\* have an intersection of strictly positive area, zero-width and zero-height
\* boxes included, and returns ExamplePairs on the example lists.
C1_PositiveAreaIff ==
    (ov_fn = "pairs" /\ ov_pc = "done") =>
        /\ Range(overlap_list) =
              {p \in PairDomain : PositiveArea(bbox_list1[p[1] + 1], bbox_list2[p[2] + 1])}
        /\ (bbox_list1 = ExampleList1 /\ bbox_list2 = ExampleList2)
              => Range(overlap_list) = ExamplePairs

\* C2: the sweep-line routine and the naive routine return the same index
\* pairs with the same multiplicities, whatever the listing order; the sweep
\* returns normally, lists every pair at most once and always as
\* (index in the first list, index in the second list).
C2_SweepAgreesWithNaive ==
    (ov_fn = "pairs" /\ ov_pc # "loop") =>
        /\ ov_pc = "done"
        /\ Range(overlap_list) \subseteq PairDomain
        /\ \A p \in PairDomain :
              /\ Count(overlap_list, p) =
                    Count(naive_get_overlapped_bboxes_pairs(bbox_list1, bbox_list2), p)
              /\ Count(overlap_list, p) <= 1

\* a finished sweep that lists at least two pairs, in another order than the
\* naive routine
C2_Witness ==
    /\ ov_fn = "pairs" /\ ov_pc = "done"
    /\ Len(overlap_list) >= 2
    /\ overlap_list # naive_get_overlapped_bboxes_pairs(bbox_list1, bbox_list2)

\* C3: in both sweep-line routines, two boxes that share only a boundary
\* edge or only a corner point never produce an overlap pair.
C3_NoBoundaryOnlyPair ==
    (ov_fn \in {"pairs", "table"} /\ ov_pc = "done") =>
        \A p \in Range(overlap_list) :
            ~SharesOnlyBoundary(bbox_list1[p[1] + 1], bbox_list2[p[2] + 1])

(***************************************************************************)
(* Properties of cells_to_tables.                                          *)
(***************************************************************************)
CornerSet(b) == {b[1], b[3]} \X {b[2], b[4]}

SharesCorner(a, b) == CornerSet(a) \cap CornerSet(b) # {}

\* positions of the input cells linked to a position of S by a chain of
\* input cells in which consecutive cells share a corner
RECURSIVE Linked(_)
Linked(S) ==
    LET T == S \cup {j \in 1..Len(cells) :
                        \E i \in S : SharesCorner(cells[i].bbox, cells[j].bbox)}
    IN  IF T = S THEN S ELSE Linked(T)

InSameTable(i, j) ==
    \E t \in 1..Len(filtered) :
        cells[i].bbox \in Range(filtered[t]) /\ cells[j].bbox \in Range(filtered[t])

\* C4: two input cells are in the same returned table exactly when a chain of
\* corner-sharing input cells links them; a cell linked to no other cell is in
\* no table, and the tables hold input cells only.
C4_TablesAreCornerComponents ==
    ct_pc = "done" =>
        /\ \A i \in 1..Len(cells) :
              LET linked == Linked({i})
              IN  /\ \A j \in 1..Len(cells) :
                        i # j => (InSameTable(i, j) <=> j \in linked)
                  /\ linked = {i} => ~InSameTable(i, i)
        /\ \A t \in 1..Len(filtered) :
              Range(filtered[t]) \subseteq {cells[i].bbox : i \in 1..Len(cells)}

\* a returned table in which two cells share no corner themselves, next to an
\* input cell that is in no table
C4_Witness ==
    /\ ct_pc = "done"
    /\ \E t \in 1..Len(filtered) : \E a, b \in Range(filtered[t]) : ~SharesCorner(a, b)
    /\ \E i \in 1..Len(cells) : ~InSameTable(i, i)

\* the lexicographically smallest (y, x) corner of a list of cell bboxes
MinYX(t) ==
    LET pts == {<<c[2], c[1]>> : c \in UNION {CornerSet(t[k]) : k \in 1..Len(t)}}
    IN  CHOOSE p \in pts : \A q \in pts : p[1] < q[1] \/ (p[1] = q[1] /\ p[2] <= q[2])

\* C5: the returned tables are in strictly ascending order of their smallest
\* (y, x) corner and each holds at least two cells.
C5_SortedAndAtLeastTwoCells ==
    ct_pc = "done" =>
        /\ \A k \in 1..Len(filtered) : Len(filtered[k]) >= 2
        /\ \A k \in 1..(Len(filtered) - 1) :
              LET p == MinYX(filtered[k])
                  q == MinYX(filtered[k + 1])
              IN  p[1] < q[1] \/ (p[1] = q[1] /\ p[2] < q[2])

\* two tables are returned, in another order than they were built, and a
\* one-cell table was dropped
C5_Witness ==
    /\ ct_pc = "done"
    /\ Len(filtered) >= 2
    /\ filtered[1] = tables[2].cells
    /\ Len(tables) > Len(filtered)

\* the returned tables that hold the bbox of input cell i
TablesHolding(i) == {t \in 1..Len(filtered) : cells[i].bbox \in Range(filtered[t])}

\* C28: cells_to_tables terminates on every finite list of cell bboxes; the
\* empty list yields the empty list of tables; every input cell is placed
\* in at most one table, as many times as it is in the input; and the cells
\* placed in no table are exactly those linked to no other cell by a chain
\* of corner-sharing cells.
C28_CellsToTables ==
    /\ <>(ct_pc = "done")
    /\ [](ct_pc = "done" =>
            /\ cells = <<>> => filtered = <<>>
            /\ \A i \in 1..Len(cells) :
                  /\ Cardinality(TablesHolding(i)) <= 1
                  /\ \A t \in TablesHolding(i) :
                        Count(filtered[t], cells[i].bbox) =
                            Cardinality({j \in 1..Len(cells) : cells[j].bbox = cells[i].bbox})
                  /\ TablesHolding(i) = {} <=> Linked({i}) = {i})

\* a call that needed a pass to find that a table was complete has returned
\* a table and has left a cell out
C28_Witness ==
    /\ ct_pc = "done"
    /\ Len(tables) >= 2 /\ Len(filtered) >= 1
    /\ \E i \in 1..Len(cells) : TablesHolding(i) = {}
    /\ \E i \in 1..Len(cells) : Cardinality(Linked({i})) >= 3

(***************************************************************************)
(* Properties of edges_to_intersections and intersections_to_cells.        *)
(***************************************************************************)
InputV == {e \in Range(edges) : e.orientation = "v"}
InputH == {e \in Range(edges) : e.orientation = "h"}

\* the four tolerance conditions on a vertical edge v and a horizontal edge h
FourConditions(v, h) ==
    /\ v.top <= h.top + y_tolerance
    /\ v.bottom >= h.top - y_tolerance
    /\ v.x0 >= h.x0 - x_tolerance
    /\ v.x0 <= h.x1 + x_tolerance

\* the (v, h) pairs of input edges that produce the vertex p
Producers(p) ==
    {q \in InputV \X InputH :
        FourConditions(q[1], q[2]) /\ <<q[1].x0, q[2].top>> = p}

ShareV(p, q) == Range(intersections[p].v) \cap Range(intersections[q].v) # {}
ShareH(p, q) == Range(intersections[p].h) \cap Range(intersections[q].h) # {}

\* A rectangle of positive size from top-left p to bottom-right br whose
\* corners are vertices and whose sides are edge-connected.
ValidRect(p, br) ==
    /\ br[1] > p[1] /\ br[2] > p[2]
    /\ {p, br, <<p[1], br[2]>>, <<br[1], p[2]>>} \subseteq DOMAIN intersections
    /\ ShareV(p, <<p[1], br[2]>>)
    /\ ShareH(p, <<br[1], p[2]>>)
    /\ ShareV(br, <<br[1], p[2]>>)
    /\ ShareH(br, <<p[1], br[2]>>)

\* C6: intersections_to_cells emits at most one cell per top-left vertex,
\* and the emitted cell is a valid rectangle anchored there such that no
\* valid rectangle with the same top-left vertex is narrower or lower.
C6_SmallestCellPerAnchor ==
    ic_pc = "done" =>
        /\ \A i, j \in 1..Len(cell_list) :
              i # j => <<cell_list[i][1], cell_list[i][2]>>
                         # <<cell_list[j][1], cell_list[j][2]>>
        /\ \A k \in 1..Len(cell_list) :
              LET c == cell_list[k]
                  p == <<c[1], c[2]>>
              IN  /\ ValidRect(p, <<c[3], c[4]>>)
                  /\ \A br \in DOMAIN intersections :
                        ValidRect(p, br) =>
                            /\ c[3] - c[1] <= br[1] - p[1]
                            /\ c[4] - c[2] <= br[2] - p[2]

\* a cell was emitted at a vertex that also anchors a larger valid rectangle
C6_Witness ==
    /\ ic_pc = "done"
    /\ \E k \in 1..Len(cell_list) : \E br \in DOMAIN intersections :
          /\ ValidRect(<<cell_list[k][1], cell_list[k][2]>>, br)
          /\ br # <<cell_list[k][3], cell_list[k][4]>>

\* C7: every cell emitted by intersections_to_cells has its four corners
\* among the keys of the intersection map, each of its four sides has an
\* edge recorded at both end vertices of the side, and its width and height
\* are strictly positive.
C7_CellsAreBounded ==
    ic_pc = "done" =>
        \A k \in 1..Len(cell_list) :
            LET c  == cell_list[k]
                tl == <<c[1], c[2]>>
                tr == <<c[3], c[2]>>
                bl == <<c[1], c[4]>>
                br == <<c[3], c[4]>>
            IN  /\ {tl, tr, bl, br} \subseteq DOMAIN intersections
                /\ \E e \in InputV : /\ e \in Range(intersections[tl].v)
                                      /\ e \in Range(intersections[bl].v)
                /\ \E e \in InputV : /\ e \in Range(intersections[tr].v)
                                      /\ e \in Range(intersections[br].v)
                /\ \E e \in InputH : /\ e \in Range(intersections[tl].h)
                                      /\ e \in Range(intersections[tr].h)
                /\ \E e \in InputH : /\ e \in Range(intersections[bl].h)
                                      /\ e \in Range(intersections[br].h)
                /\ c[3] - c[1] > 0
                /\ c[4] - c[2] > 0

\* cells were emitted although some vertex is the top-left corner of none
C7_Witness ==
    /\ ic_pc = "done"
    /\ cell_list # <<>>
    /\ \E p \in DOMAIN intersections :
          \A k \in 1..Len(cell_list) : <<cell_list[k][1], cell_list[k][2]>> # p

\* C8: the keys of the map returned by edges_to_intersections are exactly
\* the points (v.x0, h.top) of the pairs of a vertical and a horizontal input
\* edge that satisfy the four tolerance conditions; the v list and the h
\* list of a vertex hold exactly the edges of the pairs that produce it,
\* and neither list is empty.
C8_VerticesIffFourConditions ==
    ic_pc \in {"intersections", "done"} =>
        /\ \A v \in InputV : \A h \in InputH :
              FourConditions(v, h) => <<v.x0, h.top>> \in DOMAIN intersections
        /\ \A p \in DOMAIN intersections :
              /\ Producers(p) # {}
              /\ Range(intersections[p].v) = {q[1] : q \in Producers(p)}
              /\ Range(intersections[p].h) = {q[2] : q \in Producers(p)}
              /\ intersections[p].v # <<>>
              /\ intersections[p].h # <<>>

\* a call that recorded a vertex and also met a pair of edges that fails
\* the conditions
C8_Witness ==
    /\ ic_pc = "intersections"
    /\ DOMAIN intersections # {}
    /\ \E v \in InputV : \E h \in InputH : ~FourConditions(v, h)

(***************************************************************************)
(* Properties of join_edge_group.                                          *)
(***************************************************************************)
StartOf(e) == e[min_prop(jg_orientation)]
EndOf(e) == e[max_prop(jg_orientation)]

\* The edges are processed in ascending start order, the returned segments
\* are separated by gaps larger than the tolerance, and the example group
\* gives one edge (0, 100) with tolerance 5 and two edges with tolerance 1.
JoinStateRule ==
    /\ jg_pc \in {"loop", "done"} =>
          /\ \A k \in 1..(Len(sorted_edges) - 1) :
                StartOf(sorted_edges[k]) <= StartOf(sorted_edges[k + 1])
          /\ \A e \in Range(jg_edges) \cup Range(sorted_edges) :
                Count(sorted_edges, e) = Count(jg_edges, e)
    /\ jg_pc = "done" =>
          /\ \A k \in 1..(Len(joined) - 1) :
                StartOf(joined[k + 1]) > EndOf(joined[k]) + jg_tolerance
          /\ (jg_edges = ExampleGroup /\ jg_tolerance = 5) =>
                joined = <<HEdge(100, 0, 100)>>
          /\ (jg_edges = ExampleGroup /\ jg_tolerance = 1) =>
                /\ Len(joined) = 2
                /\ <<StartOf(joined[1]), EndOf(joined[1])>> = <<0, 50>>
                /\ <<StartOf(joined[2]), EndOf(joined[2])>> = <<52, 100>>

\* An iteration starts a new segment with the next edge exactly when that
\* edge starts beyond the end of the current segment plus the tolerance;
\* otherwise the current segment keeps its start and its end becomes the
\* larger of its end and the end of the edge.
JoinStepRule ==
    (jg_pc = "loop" /\ jg_i' = jg_i + 1) =>
        LET e    == sorted_edges[jg_i + 2]
            n    == Len(joined)
            last == joined[n]
        IN  IF StartOf(e) > EndOf(last) + jg_tolerance
            THEN joined' = Append(joined, e)
            ELSE /\ Len(joined') = n
                 /\ SubSeq(joined', 1, n - 1) = SubSeq(joined, 1, n - 1)
                 /\ StartOf(joined'[n]) = StartOf(last)
                 /\ EndOf(joined'[n]) = Max2(EndOf(last), EndOf(e))

\* C9: join_edge_group processes the edges of a non-empty group in ascending
\* start order, starts a new segment exactly when the next edge starts
\* beyond the current end plus the tolerance and otherwise sets the current
\* end to the larger end, so that the returned segments are more than the
\* tolerance apart; the two edges (0, 50) and (52, 100) at top = 100 give
\* one edge (0, 100) with tolerance 5 and two edges with tolerance 1.
C9_JoinEdgeGroup == []JoinStateRule /\ [][JoinStepRule]_vars

\* a call that joined some edges and also started a new segment
C9_Witness ==
    /\ jg_pc = "done"
    /\ Len(joined) >= 2
    /\ Len(joined) < Len(jg_edges)

(***************************************************************************)
(* Properties of merge_edges.                                              *)
(***************************************************************************)
\* C10: merging is idempotent: merge_edges applied to the result of
\* merge_edges, with the same tolerances, returns that result unchanged.
C10_MergeIdempotent ==
    mg_pc = "again" => merged_again = merged

\* the group of an edge: its orientation and the coordinate of its line
GroupOf(e) == <<e.orientation, IF e.orientation = "h" THEN e.top ELSE e.x0>>

\* start and end of an edge along its line
AlongStart(e) == IF e.orientation = "h" THEN e.x0 ELSE e.top
AlongEnd(e) == IF e.orientation = "h" THEN e.x1 ELSE e.bottom

RECURSIVE Flat(_)
Flat(gs) == IF gs = <<>> THEN <<>> ELSE gs[1] \o Flat(SubSeq(gs, 2, Len(gs)))

\* positions of the flattened list at which a group ends and another begins
GroupBreaks(gs) == {Len(Flat(SubSeq(gs, 1, k))) : k \in 1..(Len(gs) - 1)}

\* C12: cluster_list returns the values in ascending order, split into
\* consecutive non-empty groups, with a new group beginning exactly where a
\* value exceeds its predecessor by more than the tolerance (duplicates and
\* tolerance 0 included); [1,2,5,6,10] gives [[1,2],[5,6],[10]] with
\* tolerance 2 and five singleton groups with tolerance 0.
C12_ClusterList ==
    cl_pc = "done" =>
        LET s == Flat(cl_groups)
        IN  /\ Len(s) = Len(cl_xs)
            /\ \A v \in Range(cl_xs) \cup Range(s) : Count(s, v) = Count(cl_xs, v)
            /\ \A k \in 1..(Len(s) - 1) : s[k] <= s[k + 1]
            /\ \A k \in 1..Len(cl_groups) : cl_groups[k] # <<>>
            /\ \A k \in 1..(Len(s) - 1) :
                  k \in GroupBreaks(cl_groups) <=> s[k + 1] - s[k] > cl_tolerance
            /\ (cl_xs = ExampleValues /\ cl_tolerance = 2) =>
                  cl_groups = << <<1, 2>>, <<5, 6>>, <<10>> >>
            /\ (cl_xs = ExampleValues /\ cl_tolerance = 0) =>
                  cl_groups = << <<1>>, <<2>>, <<5>>, <<6>>, <<10>> >>

\* the rule of C12 on the inputs where the tolerance is positive or no value
\* is repeated
ClusterRuleWithoutZeroDuplicates ==
    (cl_tolerance > 0 \/ Cardinality(Range(cl_xs)) = Len(cl_xs)) => C12_ClusterList

(***************************************************************************)
(* Properties of snap_objects.                                             *)
(***************************************************************************)
SnapValues == {sn_objs[k][sn_attr] : k \in 1..Len(sn_objs)}

\* two values of the input are in one cluster: from the smaller to the
\* larger, no value of the input is more than the tolerance above the value
\* before it
SameCluster(u, v) ==
    \A w \in SnapValues :
        (Min2(u, v) < w /\ w <= Max2(u, v)) =>
            \E p \in SnapValues : p < w /\ w - p <= sn_tolerance

\* the mean of attr over the objects of the cluster of the k-th input object
ClusterMean(k) ==
    LET members == SelectSeq(sn_objs,
                       LAMBDA o : SameCluster(o[sn_attr], sn_objs[k][sn_attr]))
    IN  FlDiv(FlSum([j \in 1..Len(members) |-> members[j][sn_attr]]), Len(members))

AxisKeys == IF sn_attr \in {"x0", "x1"} THEN <<"x0", "x1">> ELSE <<"top", "bottom">>

\* r is the k-th input object moved along the axis of attr onto the mean of
\* its cluster
SnappedFrom(r, k) ==
    LET o == sn_objs[k]
    IN  /\ DOMAIN r = DOMAIN o
        /\ r[sn_attr] = ClusterMean(k)
        /\ r[AxisKeys[2]] - r[AxisKeys[1]] = o[AxisKeys[2]] - o[AxisKeys[1]]
        /\ \A key \in DOMAIN o \ Range(AxisKeys) : r[key] = o[key]

Bijections(n) == {p \in [1..n -> 1..n] : \A i, j \in 1..n : p[i] = p[j] => i = j}

\* C13: snap_objects returns every input object exactly once, moved along
\* the axis of attr so that its attr is the mean of attr over its cluster
\* and its extent on that axis is unchanged; the objects that carry only
\* x0 = 10, 10.5, 20 come back with x0 = 10.25, 10.25, 20 for tolerance 1.
C13_SnapObjects ==
    /\ sn_pc = "done" =>
          /\ Len(sn_result) = Len(sn_objs)
          /\ \E p \in Bijections(Len(sn_objs)) :
                \A k \in 1..Len(sn_objs) : SnappedFrom(sn_result[k], p[k])
    /\ (sn_pc \in {"done", "KeyError"} /\ sn_objs = ExampleObjsOnlyX0
            /\ sn_attr = "x0" /\ sn_tolerance = 4) =>
          /\ sn_pc = "done"
          /\ sn_result = <<[x0 |-> 41], [x0 |-> 41], [x0 |-> 80]>>

\* the objects of the example come back on 10.25, 10.25 and 20 when they
\* carry an x1 as well
SnapExampleWithX1 ==
    (sn_pc = "done" /\ sn_objs = ExampleObjs /\ sn_attr = "x0") =>
        sn_result = <<[x0 |-> 41, x1 |-> 45], [x0 |-> 41, x1 |-> 49],
                      [x0 |-> 80, x1 |-> 84]>>

\* the general rule of C13 on the calls in which no two values are averaged
SnapRuleWithoutAveraging ==
    (sn_pc = "done" /\ sn_tolerance = 0) => C13_SnapObjects

\* the general rule of C13 alone, on every call that returns
SnapRuleOnEveryReturn == sn_pc = "done" => C13_SnapObjects

\* the call of the example of C13 does not raise
SnapExampleDoesNotRaise == ~ (sn_pc = "KeyError" /\ sn_objs = ExampleObjsOnlyX0)

(***************************************************************************)
(* Properties of the table finders.                                        *)
(***************************************************************************)

\* the settings whose default is a number or None
NumericSettings ==
    {"snap_tolerance", "snap_x_tolerance", "snap_y_tolerance",
     "join_tolerance", "join_x_tolerance", "join_y_tolerance",
     "edge_min_length", "min_words_vertical", "min_words_horizontal",
     "text_tolerance", "text_x_tolerance", "text_y_tolerance",
     "intersection_tolerance", "intersection_x_tolerance",
     "intersection_y_tolerance"}

\* the value the call gives to a key, or the documented default
GivenOrDefault(key) ==
    IF tf_given /\ key \in DOMAIN tf_arg THEN tf_arg[key]
    ELSE DEFAULT_TABLE_SETTINGS[key]

HasUnrecognizedKey ==
    tf_given /\ \E k \in DOMAIN tf_arg : k \notin DOMAIN DEFAULT_TABLE_SETTINGS

HasNegativeSetting ==
    tf_given /\ \E k \in NumericSettings \cap DOMAIN tf_arg :
                    tf_arg[k] # None /\ tf_arg[k][1] < 0

HasUnknownStrategy ==
    \E name \in {"vertical", "horizontal"} :
        GivenOrDefault(name \o "_strategy")
            \notin {"lines", "lines_strict", "text", "explicit"}

HasTooFewExplicitLines ==
    \E name \in {"vertical", "horizontal"} :
        /\ GivenOrDefault(name \o "_strategy") = "explicit"
        /\ Len(GivenOrDefault("explicit_" \o name \o "_lines")) < 2

InvalidSettings ==
    \/ HasUnrecognizedKey \/ HasNegativeSetting
    \/ HasUnknownStrategy \/ HasTooFewExplicitLines

\* nothing but the settings has been assigned or computed
NothingComputed ==
    /\ tf_assigned \subseteq {"settings"}
    /\ tf_edges = <<>> /\ tf_intersections = <<>> /\ tf_cells = <<>>
    /\ tf_cells_dev = <<>> /\ tf_tables = <<>>

InvalidSettingsState ==
    (tf_class = "TableFinder" /\ InvalidSettings) =>
        /\ tf_pc \in {"resolve_table_settings", "get_edges", "ValueError"}
        /\ NothingComputed

InvalidSettingsStep ==
    (tf_class = "TableFinder" /\ InvalidSettings) =>
        /\ tf_pc' \in {"get_edges", "ValueError"}
        /\ tf_pc = "get_edges" => tf_pc' = "ValueError"

\* C14: a TableFinder whose settings hold an unrecognized key, a negative
\* numeric setting, an unknown strategy or an explicit strategy with fewer
\* than two explicit lines raises ValueError in resolve_table_settings or at
\* the start of get_edges, with no edge, intersection, cell or table
\* computed.
C14_InvalidSettingsRaise == []InvalidSettingsState /\ [][InvalidSettingsStep]_vars

C14_Witness ==
    /\ tf_class = "TableFinder" /\ tf_pc = "ValueError" /\ NothingComputed
    /\ HasTooFewExplicitLines
    /\ ~ HasUnrecognizedKey /\ ~ HasNegativeSetting /\ ~ HasUnknownStrategy

\* states in which each of the other three causes has raised
UnrecognizedKeyRaised ==
    tf_class = "TableFinder" /\ tf_pc = "ValueError" /\ HasUnrecognizedKey
NegativeSettingRaised ==
    tf_class = "TableFinder" /\ tf_pc = "ValueError" /\ HasNegativeSetting
UnknownStrategyRaised ==
    /\ tf_class = "TableFinder" /\ tf_pc = "ValueError"
    /\ HasUnknownStrategy /\ ~ HasTooFewExplicitLines

\* a ValueError is raised for invalid settings only
ValueErrorOnlyWhenInvalid == tf_pc = "ValueError" => InvalidSettings

\* the defaults of the settings that are not the tolerance of one axis
DocumentedDefaults ==
    [vertical_strategy         |-> "lines",
     horizontal_strategy       |-> "lines",
     explicit_vertical_lines   |-> <<>>,
     explicit_horizontal_lines |-> <<>>,
     snap_tolerance            |-> Num(300),
     join_tolerance            |-> Num(300),
     edge_min_length           |-> Num(300),
     min_words_vertical        |-> Num(3),
     min_words_horizontal      |-> Num(1),
     keep_blank_chars          |-> FALSE,
     text_tolerance            |-> Num(300),
     intersection_tolerance    |-> Num(300)]

BaseOf(axis_key) ==
    CASE axis_key \in {"snap_x_tolerance", "snap_y_tolerance"} -> "snap_tolerance"
      [] axis_key \in {"join_x_tolerance", "join_y_tolerance"} -> "join_tolerance"
      [] axis_key \in {"text_x_tolerance", "text_y_tolerance"} -> "text_tolerance"
      [] axis_key \in {"intersection_x_tolerance", "intersection_y_tolerance"} ->
             "intersection_tolerance"

Supplied(key) == tf_given /\ key \in DOMAIN tf_arg

\* C15: in the resolved settings of TableFinder and TableFinder2, with or
\* without a settings argument, a key the caller does not supply has its
\* documented default, a supplied value is kept, and the tolerance of one
\* axis that is absent or None has the resolved value of its base tolerance.
C15_SettingsResolution ==
    "settings" \in tf_assigned =>
        /\ DOMAIN tf_settings =
              DOMAIN DocumentedDefaults \cup
                  {"snap_x_tolerance", "snap_y_tolerance", "join_x_tolerance",
                   "join_y_tolerance", "text_x_tolerance", "text_y_tolerance",
                   "intersection_x_tolerance", "intersection_y_tolerance"}
        /\ \A key \in DOMAIN DocumentedDefaults :
              tf_settings[key] =
                  IF Supplied(key) THEN tf_arg[key] ELSE DocumentedDefaults[key]
        /\ \A key \in DOMAIN tf_settings \ DOMAIN DocumentedDefaults :
              tf_settings[key] =
                  IF Supplied(key) /\ tf_arg[key] # None THEN tf_arg[key]
                  ELSE tf_settings[BaseOf(key)]

\* the rule of C15 for every call but TableFinder2 without a settings argument
SettingsResolutionButDefaultArgument ==
    (tf_class = "TableFinder" \/ tf_given) => C15_SettingsResolution

\* states in which the tolerance of one axis is supplied as 0, as None, or
\* not at all, next to a supplied base tolerance of 1
AxisZeroKept ==
    /\ "settings" \in tf_assigned /\ Supplied("snap_x_tolerance")
    /\ tf_arg.snap_x_tolerance = Num(0) /\ Supplied("snap_tolerance")
    /\ tf_arg.snap_tolerance = Num(1) /\ tf_settings.snap_x_tolerance = Num(0)
    /\ tf_settings.snap_y_tolerance = Num(1)
AxisNoneFallsBack ==
    /\ "settings" \in tf_assigned /\ Supplied("join_y_tolerance")
    /\ tf_arg.join_y_tolerance = None /\ Supplied("join_tolerance")
    /\ tf_arg.join_tolerance = Num(1) /\ tf_settings.join_y_tolerance = Num(1)

\* the midpoint of the char lies in the cell, left and top sides included
MidpointIn(char, cell) ==
    /\ 2 * cell[1] <= char.x0 + char.x1 /\ char.x0 + char.x1 < 2 * cell[3]
    /\ 2 * cell[2] <= char.top + char.bottom /\ char.top + char.bottom < 2 * cell[4]

CharsOf(cell) == SelectSeq(tf_page.chars, LAMBDA char : MidpointIn(char, cell))

ColumnPositions(table) == {table.cells[k][1] : k \in 1..Len(table.cells)}

\* the result of extract has one list per row and one entry per column
\* position, and the entry of a cell is the stripped text of its chars, or
\* entry_of_empty_cell when no char midpoint lies in the cell
ExtractRule(entry_of_empty_cell) ==
    \A t \in 1..Len(tf_tables) :
        LET rows == tf_rows[t]
            out == tf_extracted[t]
        IN  /\ Len(out) = Len(rows)
            /\ \A i \in 1..Len(rows) :
                  /\ Len(out[i]) = Cardinality(ColumnPositions(tf_tables[t]))
                  /\ \A j \in 1..Len(out[i]) :
                        LET cell == rows[i].cells[j]
                        IN  cell # None =>
                                out[i][j] =
                                    IF CharsOf(cell) = <<>> THEN entry_of_empty_cell
                                    ELSE Str(strip(extract_text(CharsOf(cell),
                                                 DEFAULT_X_TOLERANCE,
                                                 DEFAULT_Y_TOLERANCE)))

\* C16: Table.extract returns one list per row and one entry per column
\* position; the entry of a cell is the stripped text of the chars whose
\* midpoint lies in the cell, and None for a cell in which no char midpoint
\* lies.
C16_TableExtract == tf_pc = "extracted" => ExtractRule(None)

\* the rule of C16 with the empty string as the entry of a cell without chars
ExtractRuleWithEmptyString == tf_pc = "extracted" => ExtractRule(Str(<<>>))

\* an extracted table with a cell without chars next to a cell with chars
ExtractedEmptyCell ==
    /\ tf_pc = "extracted"
    /\ \E t \in 1..Len(tf_tables) : \E i \in 1..Len(tf_rows[t]) :
          \E j, k \in 1..Len(tf_rows[t][i].cells) :
              /\ tf_rows[t][i].cells[j] # None /\ tf_rows[t][i].cells[k] # None
              /\ CharsOf(tf_rows[t][i].cells[j]) = <<>>
              /\ CharsOf(tf_rows[t][i].cells[k]) # <<>>

TopsOf(table) == {table.cells[k][2] : k \in 1..Len(table.cells)}

\* the number of elements of S below v: the position of v in ascending
\* order, counted from 0
RankIn(S, v) == Cardinality({u \in S : u < v})

\* rows are the rows of the table: one row per distinct top in ascending
\* order, one entry per distinct x0 in ascending order that is the cell with
\* that top and x0 or None, and every cell at exactly one position
RowsRule(table, rows) ==
    /\ Len(rows) = Cardinality(TopsOf(table))
    /\ \A i \in 1..Len(rows) :
          /\ Len(rows[i].cells) = Cardinality(ColumnPositions(table))
          /\ \A j \in 1..Len(rows[i].cells) :
                \E top \in TopsOf(table), x0 \in ColumnPositions(table) :
                    /\ RankIn(TopsOf(table), top) = i - 1
                    /\ RankIn(ColumnPositions(table), x0) = j - 1
                    /\ LET here == {k \in 1..Len(table.cells) :
                                       /\ table.cells[k][1] = x0
                                       /\ table.cells[k][2] = top}
                       IN  IF here = {} THEN rows[i].cells[j] = None
                           ELSE \E k \in here : rows[i].cells[j] = table.cells[k]
    /\ \A k \in 1..Len(table.cells) :
          Cardinality({p \in (1..Len(rows)) \X (1..Cardinality(ColumnPositions(table))) :
                          rows[p[1]].cells[p[2]] = table.cells[k]}) = 1

\* the four cells of the unit square bisected both ways, named by row and
\* column, in hundredths
C00 == <<0, 0, 50, 50>>
C01 == <<50, 0, 100, 50>>
C10 == <<0, 50, 50, 100>>
C11 == <<50, 50, 100, 100>>

\* the unit square has gone through the pipeline with tolerances that keep
\* lines half a unit apart
UnitSquareThroughPipeline ==
    /\ tf_class = "TableFinder" /\ tf_page = UnitSquarePage
    /\ tf_given /\ tf_arg = SmallSettings

UnitSquareExample ==
    /\ Len(tf_tables) = 1
    /\ Len(tf_tables[1].cells) = 4
    /\ {tf_tables[1].cells[k] : k \in 1..4} = {C00, C01, C10, C11}
    /\ [i \in 1..Len(tf_rows[1]) |-> tf_rows[1][i].cells] =
           << <<C00, C01>>, <<C10, C11>> >>

\* C17: Table.rows returns one row per distinct cell top in ascending order,
\* each row with one entry per distinct cell x0 of the table in ascending
\* order, holding the cell with that top and x0 or None, so that every cell
\* is at exactly one position of exactly one row; the unit square bisected
\* both ways gives one table of four cells with rows [[C00,C01],[C10,C11]].
C17_TableRows ==
    tf_pc \in {"rows", "extracted"} =>
        /\ \A t \in 1..Len(tf_tables) : RowsRule(tf_tables[t], tf_rows[t])
        /\ UnitSquareThroughPipeline => UnitSquareExample

\* rows with a column position at which one row has no cell
C17_Witness ==
    /\ tf_pc = "rows"
    /\ \E t \in 1..Len(tf_tables) :
          /\ Len(tf_rows[t]) >= 2
          /\ \E i \in 1..Len(tf_rows[t]) : \E j, k \in 1..Len(tf_rows[t][i].cells) :
                tf_rows[t][i].cells[j] = None /\ tf_rows[t][i].cells[k] # None

\* the rows of the unit square example have been computed
UnitSquareRows == tf_pc = "rows" /\ UnitSquareThroughPipeline /\ UnitSquareExample

\* the list of cells is ascending by (top, left)
RowMajor(cs) ==
    \A k \in 1..Len(cs) - 1 :
        \/ cs[k][2] < cs[k + 1][2]
        \/ cs[k][2] = cs[k + 1][2] /\ cs[k][1] <= cs[k + 1][1]

\* the list of cells is ascending by (left, top)
ColumnMajor(cs) ==
    \A k \in 1..Len(cs) - 1 :
        \/ cs[k][1] < cs[k + 1][1]
        \/ cs[k][1] = cs[k + 1][1] /\ cs[k][2] <= cs[k + 1][2]

\* C18: in every table the pipeline produces, the list of cells of the table
\* is ordered row-major, ascending by (top, left).
C18_CellsRowMajor ==
    "tables" \in tf_assigned =>
        \A t \in 1..Len(tf_tables) : RowMajor(tf_tables[t].cells)

\* the order the cells of the finder's tables do have
CellsColumnMajor ==
    "tables" \in tf_assigned =>
        \A t \in 1..Len(tf_tables) : ColumnMajor(tf_tables[t].cells)

\* a table with cells in two rows and two columns
TableOfTwoByTwo ==
    /\ "tables" \in tf_assigned
    /\ \E t \in 1..Len(tf_tables) :
          /\ Cardinality(TopsOf(tf_tables[t])) >= 2
          /\ Cardinality(ColumnPositions(tf_tables[t])) >= 2

\* the filters of TableFinder2, by the name of their method
EdgeFilters == {"remove_too_long_edges", "remove_terminal_edges"}
CellFilters == {"remove_too_small_cells"}
TableFilters ==
    {"remove_table_without_chars", "remove_table_with_unusual_shape",
     "remove_table_with_single_col_row"}
Filters == EdgeFilters \cup CellFilters \cup TableFilters

\* the tables of TableFinder2 for the finder's page and settings when only
\* the filters in applied are applied, each at its place in the pipeline
TablesWith(applied) ==
    LET e0 == get_edges(tf_page, tf_settings)
        e1 == IF "remove_too_long_edges" \in applied
              THEN remove_too_long_edges(tf_page, e0) ELSE e0
        e2 == IF "remove_terminal_edges" \in applied
              THEN remove_terminal_edges(tf_page, e1) ELSE e1
        c0 == intersections_to_cells(
                  edges_to_intersections(e2, tf_settings.intersection_x_tolerance[1],
                                         tf_settings.intersection_y_tolerance[1]))
        c1 == IF "remove_too_small_cells" \in applied
              THEN remove_too_small_cells(tf_page, c0) ELSE c0
        found == cells_to_tables(c1)
        t0 == [k \in 1..Len(found) |-> Table(found[k])]
        t1 == IF "remove_table_without_chars" \in applied /\ Len(t0) > 0
              THEN remove_table_without_chars(t0, tf_page.words) ELSE t0
        t2 == IF "remove_table_with_unusual_shape" \in applied /\ Len(t0) > 0
              THEN remove_table_with_unusual_shape(t1) ELSE t1
    IN  IF "remove_table_with_single_col_row" \in applied /\ Len(t0) > 0
        THEN remove_table_with_single_col_row(tf_page, t2) ELSE t2

\* the tables of a list, each as its list of cells
CellLists(ts) == {ts[k].cells : k \in 1..Len(ts)}

Finder2Done == tf_class = "TableFinder2" /\ tf_pc = "done"

\* leaving out the filter gives every table the whole pipeline gives
MonotoneIn(filter) ==
    CellLists(TablesWith(Filters)) \subseteq CellLists(TablesWith(Filters \ {filter}))

\* C19: for every page and every filter of TableFinder2 (edge, cell and
\* table filters alike), the tables produced with the filter applied are a
\* subset of the tables the same pipeline produces without that filter.
C19_FilterMonotonicity == Finder2Done => \A filter \in Filters : MonotoneIn(filter)

\* the pipeline with every filter applied is the constructor of TableFinder2
TablesWithEveryFilter == Finder2Done => tf_tables = TablesWith(Filters)

\* the pipeline without any filter is the constructor of TableFinder
TablesWithNoFilter ==
    tf_class = "TableFinder" /\ tf_pc = "done" => tf_tables = TablesWith({})

\* the rule of C19 for the table filters alone
TableFiltersMonotone == Finder2Done => \A filter \in TableFilters : MonotoneIn(filter)

\* one filter applied alone gives a subset of the tables of TableFinder
AloneMonotone == Finder2Done =>
    \A filter \in Filters : CellLists(TablesWith({filter})) \subseteq CellLists(TablesWith({}))

\* states in which a table filter has removed a table
TableFilterRemoved ==
    /\ Finder2Done
    /\ \E filter \in TableFilters :
          CellLists(TablesWith(Filters)) # CellLists(TablesWith(Filters \ {filter}))

\* C20: the bbox of every Table is the union of the bboxes of its cells:
\* every cell lies inside the bbox and each side of the bbox is touched by
\* some cell, i.e. it is (min x0, min top, max x1, max bottom) over the cells.
C20_TableBBox ==
    "tables" \in tf_assigned =>
        \A t \in 1..Len(tf_tables) :
            LET bbox == tf_tables[t].bbox
                cs == tf_tables[t].cells
            IN  /\ \A k \in 1..Len(cs) :
                      /\ bbox[1] <= cs[k][1] /\ bbox[2] <= cs[k][2]
                      /\ cs[k][3] <= bbox[3] /\ cs[k][4] <= bbox[4]
                /\ \A side \in 1..4 : \E k \in 1..Len(cs) : cs[k][side] = bbox[side]

\* a table whose bbox is the bbox of none of its cells
C20_Witness ==
    /\ "tables" \in tf_assigned
    /\ \E t \in 1..Len(tf_tables) :
          /\ Len(tf_tables[t].cells) >= 3
          /\ \A k \in 1..Len(tf_tables[t].cells) :
                tf_tables[t].cells[k] # tf_tables[t].bbox

(***************************************************************************)
(* The filters of table_filtering.py and the functions of                  *)
(* table_filtering_utils.py they call.  Lengths are whole numbers here; a  *)
(* ratio of remove_too_long_edges is given in hundredths (0.95 is 95), so  *)
(* that x > ratio * w is 100 * x > ratio * w, and a ratio of remove_charts *)
(* is a whole number, so that n < m / ratio is ratio * n < m.              *)
(***************************************************************************)
MaxFilterXY == 3     \* coordinates of generated table cells range over 0..MaxFilterXY
MaxFilterCells == 3  \* number of generated cells in one generated table
MaxLineCells == 6    \* number of cells in a generated single-row or single-column table
MaxRects == 8        \* number of rects in the crop of a generated table

\* The loop of table_filtering_utils.get_overlapped_bboxes_pairs from event
\* i on.  Every box has x0 <= x1 and an enter event sorts before an exit
\* event at the same x, so remove() finds its entry.
RECURSIVE pairs_sweep(_, _, _, _, _, _, _)
pairs_sweep(l1, l2, events, i, sweeping1, sweeping2, pairs) ==
    IF i > Len(events) THEN pairs
    ELSE LET ev == events[i]
             me == PairsEntry(IF ev[1] = "box1" THEN l1 ELSE l2, ev[3])
         IN  CASE ev[1] = "box1" /\ ev[4] = 0 ->
                    LET sel == SelectSeq(sweeping2, LAMBDA b2 : PairsHit(me, b2))
                    IN  pairs_sweep(l1, l2, events, i + 1, Append(sweeping1, me),
                            sweeping2,
                            pairs \o [k \in 1..Len(sel) |-> <<me[1], sel[k][1]>>])
               [] ev[1] = "box1" /\ ev[4] = 1 ->
                    pairs_sweep(l1, l2, events, i + 1, RemoveFirst(sweeping1, me),
                            sweeping2, pairs)
               [] ev[1] = "box2" /\ ev[4] = 0 ->
                    LET sel == SelectSeq(sweeping1, LAMBDA b1 : PairsHit(b1, me))
                    IN  pairs_sweep(l1, l2, events, i + 1, sweeping1,
                            Append(sweeping2, me),
                            pairs \o [k \in 1..Len(sel) |-> <<sel[k][1], me[1]>>])
               [] ev[1] = "box2" /\ ev[4] = 1 ->
                    pairs_sweep(l1, l2, events, i + 1, sweeping1,
                            RemoveFirst(sweeping2, me), pairs)

get_overlapped_bboxes_pairs(l1, l2) ==
    pairs_sweep(l1, l2, MakeEvents(l1, l2), 1, <<>>, <<>>, <<>>)

\* table_filtering_utils.get_cell_nums: (n_row, n_col)
utils_get_cell_nums(table) ==
    <<Cardinality({<<table.cells[k][2], table.cells[k][4]>> : k \in 1..Len(table.cells)}),
      Cardinality({<<table.cells[k][1], table.cells[k][3]>> : k \in 1..Len(table.cells)})>>

is_complicated_rects(table, ratio1, ratio2) ==
    LET n == utils_get_cell_nums(table)
        overlap_bbox == get_overlapped_bboxes_pairs(table.cells, table.cells)
    IN  \/ Len(overlap_bbox) > ratio1 * Len(table.cells)
        \/ n[2] * n[1] > ratio2 * Len(table.cells)

\* remove_complicated_rects(tables) with its defaults ratio1=2, ratio2=3
remove_complicated_rects(ts) ==
    SelectSeq(ts, LAMBDA table : ~ is_complicated_rects(table, 2, 3))

\* table_filtering_utils.get_unique_list: the first occurrence of every
\* element, in order
get_unique_list(seq) ==
    Pick(seq, {k \in 1..Len(seq) : \A j \in 1..(k - 1) : seq[j] # seq[k]}, 1)

\* utils.extract_table_from_page(page, table, method="crop"), which
\* table_filtering.py calls and table_filtering_utils.py does not define:
\* the page cropped to the bbox of the table keeps the rects that overlap
\* that bbox
extract_table_from_page(page, table) ==
    [page EXCEPT !.rects =
        SelectSeq(page.rects, LAMBDA rect : NaiveHit(obj_to_bbox(rect), table.bbox))]

is_bar_graph(page, table) ==
    LET n == utils_get_cell_nums(table)
        n_row == n[1]
        n_col == n[2]
    IN  IF (n_col = 1 \/ n_row = 1) /\ n_col + n_row > 4
        THEN LET n_cells == n_col + n_row - 1
                 cropped_page == extract_table_from_page(page, table)
                 color_list == [k \in 1..Len(cropped_page.rects) |->
                                   cropped_page.rects[k].non_stroking_color]
                 unique_color_list == get_unique_list(color_list)
             IN  Len(unique_color_list) >= n_cells + 1
        ELSE FALSE

remove_bar_graph(page, ts) ==
    SelectSeq(ts, LAMBDA table : ~ is_bar_graph(page, table))

\* the ratio is in hundredths
is_too_long_edge(page, edge, ratio) ==
    \/ 100 * edge.height > ratio * page.height
    \/ 100 * edge.width > ratio * page.width

\* table_filtering.remove_too_long_edges(page, edges, ratio): the lambda
\* passes ratio=0.95 to is_too_long_edge, whatever the argument is
filtering_remove_too_long_edges(page, es, ratio) ==
    SelectSeq(es, LAMBDA edge : ~ is_too_long_edge(page, edge, 95))

is_terminal_edge(page, edge) ==
    \/ 100 * edge.x0 <= 3 * page.width
    \/ 100 * edge.x1 >= 97 * page.width
    \/ 100 * edge.top <= 3 * page.height
    \/ 100 * edge.bottom >= 97 * page.height

\* table_filtering.remove_terminal_edges
filtering_remove_terminal_edges(page, es) ==
    SelectSeq(es, LAMBDA edge : ~ is_terminal_edge(page, edge))

\* table_filtering_utils.get_min_char_size: (min_height, min_width)
utils_get_min_char_size(page) ==
    <<MinOf({page.height} \cup {page.chars[k].height : k \in 1..Len(page.chars)}),
      MinOf({page.width} \cup {page.chars[k].width : k \in 1..Len(page.chars)})>>

\* table_filtering_utils.get_cell_size: (height, width)
utils_get_cell_size(cell) == <<cell[4] - cell[2], cell[3] - cell[1]>>

is_too_small_cell_for_chars(page, cell) ==
    LET min_char == utils_get_min_char_size(page)
        min_char_height == min_char[1]
        min_char_width == min_char[2]
        cell_size == utils_get_cell_size(cell)
        cell_height == cell_size[1]
        cell_width == cell_size[2]
    IN  cell_width < min_char_width /\ cell_height < min_char_height

\* table_filtering.remove_too_small_cells
filtering_remove_too_small_cells(page, cs) ==
    SelectSeq(cs, LAMBDA cell : ~ is_too_small_cell_for_chars(page, cell))

\* table_filtering_utils.crop_page_within_table: page.within_bbox keeps
\* the objects that lie entirely within the bbox
crop_page_within_table(page, table) ==
    LET bbox == <<table.bbox[1] + page.bbox[1], table.bbox[2] + page.bbox[2],
                  table.bbox[3] + page.bbox[1], table.bbox[4] + page.bbox[2]>>
    IN  [page EXCEPT !.chars =
            SelectSeq(page.chars, LAMBDA c :
                /\ c.x0 >= bbox[1] /\ c.top >= bbox[2]
                /\ c.x1 <= bbox[3] /\ c.bottom <= bbox[4])]

\* get_overlapping_index(overlap_list) with get_first=True
get_overlapping_index(overlaps) ==
    SortNums(ListOfSet({overlaps[k][1] : k \in 1..Len(overlaps)}))

get_cell_idxs_overlapped_with_chars(table, page) ==
    LET page_table_area == crop_page_within_table(page, table)
        chars_bbox == [k \in 1..Len(page_table_area.chars) |->
                          obj_to_bbox(page_table_area.chars[k])]
    IN  get_overlapping_index(get_overlapped_bboxes_pairs(table.cells, chars_bbox))

\* the ratio is a whole number
seems_to_be_chart(page, table, ratio) ==
    LET cells_with_overlap == get_cell_idxs_overlapped_with_chars(table, page)
    IN  ratio * Len(cells_with_overlap) < Len(table.cells)

\* table_filtering.remove_charts(page, tables, ratio): the lambda calls
\* seems_to_be_chart without the ratio, which then is its default, 5
remove_charts(page, ts, ratio) ==
    SelectSeq(ts, LAMBDA table : ~ seems_to_be_chart(page, table, 5))

\* the part of a filter call that a step leaves alone
call_unchanged == UNCHANGED <<fl_fn, fl_page, fl_arg, fl_ratio>>

RemoveComplicatedRects ==
    /\ fl_fn = "remove_complicated_rects" /\ fl_pc = "start"
    /\ fl_result' = remove_complicated_rects(fl_arg)
    /\ fl_pc' = "done"
    /\ call_unchanged
    /\ UNCHANGED notFl

RemoveBarGraph ==
    /\ fl_fn = "remove_bar_graph" /\ fl_pc = "start"
    /\ fl_result' = remove_bar_graph(fl_page, fl_arg)
    /\ fl_pc' = "done"
    /\ call_unchanged
    /\ UNCHANGED notFl

\* the ratio of the call, or the default of the parameter
RatioOr(default) == IF fl_ratio = None THEN default ELSE fl_ratio[1]

FilteringRemoveTooLongEdges ==
    /\ fl_fn = "table_filtering.remove_too_long_edges" /\ fl_pc = "start"
    /\ fl_result' = filtering_remove_too_long_edges(fl_page, fl_arg, RatioOr(95))
    /\ fl_pc' = "done"
    /\ call_unchanged
    /\ UNCHANGED notFl

FilteringRemoveTerminalEdges ==
    /\ fl_fn = "table_filtering.remove_terminal_edges" /\ fl_pc = "start"
    /\ fl_result' = filtering_remove_terminal_edges(fl_page, fl_arg)
    /\ fl_pc' = "done"
    /\ call_unchanged
    /\ UNCHANGED notFl

\* TableFinder2.remove_terminal_edges(edges) of a finder of the page
MethodRemoveTerminalEdges ==
    /\ fl_fn = "TableFinder2.remove_terminal_edges" /\ fl_pc = "start"
    /\ fl_result' = remove_terminal_edges(fl_page, fl_arg)
    /\ fl_pc' = "done"
    /\ call_unchanged
    /\ UNCHANGED notFl

FilteringRemoveTooSmallCells ==
    /\ fl_fn = "table_filtering.remove_too_small_cells" /\ fl_pc = "start"
    /\ fl_result' = filtering_remove_too_small_cells(fl_page, fl_arg)
    /\ fl_pc' = "done"
    /\ call_unchanged
    /\ UNCHANGED notFl

\* TableFinder2.remove_too_small_cells(cells) of a finder of the page
MethodRemoveTooSmallCells ==
    /\ fl_fn = "TableFinder2.remove_too_small_cells" /\ fl_pc = "start"
    /\ fl_result' = remove_too_small_cells(fl_page, fl_arg)
    /\ fl_pc' = "done"
    /\ call_unchanged
    /\ UNCHANGED notFl

RemoveCharts ==
    /\ fl_fn = "remove_charts" /\ fl_pc = "start"
    /\ fl_result' = remove_charts(fl_page, fl_arg, RatioOr(5))
    /\ fl_pc' = "done"
    /\ call_unchanged
    /\ UNCHANGED notFl

(***************************************************************************)
(* Specification of one call of a filter.  Tables are the tables that      *)
(* cells_to_tables makes of up to MaxFilterCells cells with corners on a   *)
(* grid.                                                                   *)
(***************************************************************************)
FilterCells ==
    {c \in (0..MaxFilterXY) \X (0..MaxFilterXY) \X (0..MaxFilterXY) \X (0..MaxFilterXY) :
        c[1] < c[3] /\ c[2] < c[4]}

\* the position of a cell in the order (x0, top, x1, bottom)
CellRank(c) ==
    ((c[1] * (MaxFilterXY + 1) + c[2]) * (MaxFilterXY + 1) + c[3]) * (MaxFilterXY + 1) + c[4]

\* lists of up to max distinct cells, in ascending order
FilterCellLists(max) ==
    UNION {{s \in [1..n -> FilterCells] :
               \A k \in 1..(n - 1) : CellRank(s[k]) < CellRank(s[k + 1])} :
           n \in 1..max}

TablesOf(cs) ==
    LET found == cells_to_tables(cs)
    IN  [k \in 1..Len(found) |-> Table(found[k])]

GridTableLists(max) == {TablesOf(cs) : cs \in FilterCellLists(max)}

NoPage == Page(0, 0, <<>>, <<>>, <<>>)

\* a table of n cells in one row, or in one column, each 10 wide and high
RowTable(n) == Table([k \in 1..n |-> <<10 * (k - 1), 0, 10 * k, 10>>])
ColumnTable(n) == Table([k \in 1..n |-> <<0, 10 * (k - 1), 10, 10 * k>>])
LineTables == {RowTable(n) : n \in 1..MaxLineCells} \cup {ColumnTable(n) : n \in 1..MaxLineCells}

\* a 2 x 2 table
SquareTable ==
    Table(<< <<0, 0, 10, 10>>, <<10, 0, 20, 10>>, <<0, 10, 10, 20>>, <<10, 10, 20, 20>> >>)

\* A page of 100 x 100 with rects of the given colours, all within the
\* first cell of the tables above, and one more rect, of a colour of its
\* own, away from every table.
Rect(x0, top, x1, bottom, color) ==
    [x0 |-> x0, top |-> top, x1 |-> x1, bottom |-> bottom,
     non_stroking_color |-> color]

RectPage(colors) ==
    [bbox |-> <<0, 0, 100, 100>>, width |-> 100, height |-> 100, chars |-> <<>>,
     rects |-> [k \in 1..Len(colors) |-> Rect(2, 2, 8, 8, colors[k])]
                   \o << Rect(80, 80, 90, 90, 0) >>]

\* n rects of n colours, of n / 2 colours and of one colour
ColorLists ==
    UNION {{[k \in 1..n |-> k], [k \in 1..n |-> (k + 1) \div 2], [k \in 1..n |-> 1]} :
              n \in 0..MaxRects}

BarGraphCalls ==
    {<<"remove_bar_graph", RectPage(colors), <<table>>, None>> :
        colors \in ColorLists, table \in LineTables \cup {SquareTable}}

\* pages without chars: a square one, a tall one and a wide one
PlainPages ==
    {Page(100, 100, <<>>, <<>>, <<>>), Page(100, 200, <<>>, <<>>, <<>>),
     Page(200, 100, <<>>, <<>>, <<>>)}

\* coordinates next to 3 %, 50 %, 95 % and 97 % of 100 and of 200
EdgeCoords == {3, 4, 6, 7, 54, 96, 97, 99, 193, 194}

\* the horizontal and the vertical edges of a page with such coordinates
PageEdges(page) ==
    LET Xs == {x \in EdgeCoords : x <= page.width}
        Ys == {y \in EdgeCoords : y <= page.height}
    IN  {HEdge(y, l, r) : y \in Ys, l \in Xs, r \in Xs} \cup
        {VEdge(x, t, b) : x \in Xs, t \in Ys, b \in Ys}

EdgeCalls(fn, ratios) ==
    UNION {{<<fn, page, <<edge>>, ratio>> :
               edge \in {e \in PageEdges(page) : e.x0 <= e.x1 /\ e.top <= e.bottom},
               ratio \in ratios} :
           page \in PlainPages}

\* pages whose smallest char width is 4 and smallest char height is 6, and
\* a page without chars
CharPages ==
    {Page(100, 100, <<>>, << Char("a", 10, 10, 14, 16) >>, <<>>),
     Page(100, 100, <<>>, << Char("a", 10, 10, 14, 18), Char("b", 20, 10, 25, 16) >>, <<>>),
     Page(8, 8, <<>>, <<>>, <<>>)}

\* cells of width 3..9 and height 3..9, alone or two in a list
SizedCells == {<<0, 0, w, h>> : w \in 3..9, h \in 3..9}

CellCalls(fn) ==
    {<<fn, page, <<cell>>, None>> : page \in CharPages, cell \in SizedCells}
    \cup {<<fn, page, <<<<0, 0, 3, 5>>, cell>>, None>> :
             page \in CharPages, cell \in SizedCells \ {<<0, 0, 3, 5>>}}

\* a page with a char in each of the first k cells of a row of cells and
\* one char away from them
ChartPage(k) ==
    Page(100, 100, <<>>,
         [j \in 1..k |-> Char("x", 10 * (j - 1) + 2, 2, 10 * (j - 1) + 6, 8)]
             \o << Char("y", 80, 80, 84, 88) >>, <<>>)

ChartCalls ==
    {<<"remove_charts", ChartPage(k), <<RowTable(n)>>, ratio>> :
        n \in 1..MaxLineCells, k \in 0..MaxLineCells, ratio \in {None, Num(2), Num(5)}}

\* (filter, page, edges or cells or tables, ratio) of a call
FilterCalls(max_cells) ==
    ({"remove_complicated_rects"} \X {NoPage} \X GridTableLists(max_cells) \X {None})
    \cup BarGraphCalls
    \cup EdgeCalls("table_filtering.remove_too_long_edges", {None, Num(50), Num(95)})
    \cup EdgeCalls("table_filtering.remove_terminal_edges", {None})
    \cup EdgeCalls("TableFinder2.remove_terminal_edges", {None})
    \cup CellCalls("table_filtering.remove_too_small_cells")
    \cup CellCalls("TableFinder2.remove_too_small_cells")
    \cup ChartCalls

FiltersInit ==
    /\ IdleButFilters
    /\ fl_result = <<>> /\ fl_pc = "start"
    /\ \E call \in FilterCalls(MaxFilterCells) :
          /\ fl_fn = call[1] /\ fl_page = call[2]
          /\ fl_arg = call[3] /\ fl_ratio = call[4]

FiltersNext ==
    \/ RemoveComplicatedRects
    \/ RemoveBarGraph
    \/ FilteringRemoveTooLongEdges
    \/ FilteringRemoveTerminalEdges
    \/ MethodRemoveTerminalEdges
    \/ FilteringRemoveTooSmallCells
    \/ MethodRemoveTooSmallCells
    \/ RemoveCharts

SpecFilters == FiltersInit /\ [][FiltersNext]_vars

\* a call of the filter named has returned
Returned(fn) == fl_fn = fn /\ fl_pc = "done"

\* the call has dropped element k of its argument (the elements of the
\* generated arguments are distinct)
Dropped(k) == fl_arg[k] \notin Range(fl_result)

\* C21: with default parameters remove_complicated_rects drops a table if
\* and only if the number of overlapping pairs among the table's own cells
\* (as the sweep counts them) is greater than the number of cells, or
\* n_row x n_col is greater than 2 x the number of cells.
C21_ComplicatedTables ==
    Returned("remove_complicated_rects") =>
        \A k \in 1..Len(fl_arg) :
            LET cs == fl_arg[k].cells
                n  == utils_get_cell_nums(fl_arg[k])
            IN  Dropped(k) <=>
                    \/ Len(get_overlapped_bboxes_pairs(cs, cs)) > Len(cs)
                    \/ n[1] * n[2] > 2 * Len(cs)

\* the number of cells of a table of one row or one column, 0 for another
LineLength(table) ==
    LET n == utils_get_cell_nums(table)
    IN  IF n[1] = 1 \/ n[2] = 1 THEN n[1] + n[2] - 1 ELSE 0

\* the colours of the rects of the page that overlap the bbox of the table
CropColors(page, table) ==
    {page.rects[k].non_stroking_color :
        k \in {j \in 1..Len(page.rects) : NaiveHit(obj_to_bbox(page.rects[j]), table.bbox)}}

\* C22: is_bar_graph flags a table if and only if it is 1xN or Nx1 with
\* N > 4 and the rects in its crop have at least N+1 distinct non-stroking
\* colours; in particular a table of one row or column with N <= 4 is never
\* flagged, and a 1x6 table with 8 colours in its crop is.
C22_BarGraph ==
    Returned("remove_bar_graph") =>
        \A k \in 1..Len(fl_arg) :
            LET N == LineLength(fl_arg[k])
            IN  Dropped(k) <=>
                    /\ N > 4
                    /\ Cardinality(CropColors(fl_page, fl_arg[k])) >= N + 1

\* C23: the terminal-edge filter, in table_filtering and in TableFinder2,
\* drops an edge if and only if x0 <= 0.03 x page width, or x1 >= 0.97 x
\* page width, or top <= 0.03 x page height, or bottom >= 0.97 x page
\* height, whatever the aspect ratio of the page.
C23_TerminalEdges ==
    (Returned("table_filtering.remove_terminal_edges")
        \/ Returned("TableFinder2.remove_terminal_edges")) =>
        \A k \in 1..Len(fl_arg) :
            Dropped(k) <=>
                \/ 100 * fl_arg[k].x0 <= 3 * fl_page.width
                \/ 100 * fl_arg[k].x1 >= 97 * fl_page.width
                \/ 100 * fl_arg[k].top <= 3 * fl_page.height
                \/ 100 * fl_arg[k].bottom >= 97 * fl_page.height

\* the filter of table_filtering alone follows the rule of C23
TerminalEdgesOfFiltering ==
    Returned("table_filtering.remove_terminal_edges") => C23_TerminalEdges

\* the cells of a table that overlap, in area, a char of the page that lies
\* within the bbox of the table
CellsWithChars(page, table) ==
    {k \in 1..Len(table.cells) :
        \E j \in 1..Len(page.chars) :
            /\ NaiveHit(table.cells[k], obj_to_bbox(page.chars[j]))
            /\ page.chars[j].x0 >= table.bbox[1] /\ page.chars[j].top >= table.bbox[2]
            /\ page.chars[j].x1 <= table.bbox[3] /\ page.chars[j].bottom <= table.bbox[4]}

\* C24: a filter that accepts a ratio uses the ratio of the call:
\* remove_too_long_edges(page, edges, ratio=r) drops exactly the edges whose
\* length exceeds r x the page dimension on their axis (0.95 by default, an
\* edge of exactly that length being kept), and remove_charts(page, tables,
\* ratio=r) drops exactly the tables in which fewer than 1/r of the cells
\* overlap chars (r = 5 by default).
C24_RatioHonoured ==
    /\ Returned("table_filtering.remove_too_long_edges") =>
          \A k \in 1..Len(fl_arg) :
              Dropped(k) <=>
                  \/ 100 * fl_arg[k].height > RatioOr(95) * fl_page.height
                  \/ 100 * fl_arg[k].width > RatioOr(95) * fl_page.width
    /\ Returned("remove_charts") =>
          \A k \in 1..Len(fl_arg) :
              Dropped(k) <=>
                  RatioOr(5) * Cardinality(CellsWithChars(fl_page, fl_arg[k]))
                      < Len(fl_arg[k].cells)

\* with the default ratio both filters follow the rule of C24
DefaultRatioHonoured == fl_ratio = None => C24_RatioHonoured

\* C25: the too-small-cell filter, in table_filtering and in TableFinder2,
\* drops a cell if and only if its width is below the smallest char width
\* of the page and its height is below the smallest char height; a cell
\* smaller in one dimension only is kept.
C25_TooSmallCells ==
    (Returned("table_filtering.remove_too_small_cells")
        \/ Returned("TableFinder2.remove_too_small_cells")) =>
        \A k \in 1..Len(fl_arg) :
            LET cell == fl_arg[k]
                MinWidth == MinOf({fl_page.width} \cup
                               {fl_page.chars[j].x1 - fl_page.chars[j].x0 :
                                   j \in 1..Len(fl_page.chars)})
                MinHeight == MinOf({fl_page.height} \cup
                               {fl_page.chars[j].bottom - fl_page.chars[j].top :
                                   j \in 1..Len(fl_page.chars)})
            IN  Dropped(k) <=>
                    /\ cell[3] - cell[1] < MinWidth
                    /\ cell[4] - cell[2] < MinHeight

\* the filter of table_filtering alone follows the rule of C25
TooSmallCellsOfFiltering ==
    Returned("table_filtering.remove_too_small_cells") => C25_TooSmallCells

(***************************************************************************)
(* utils.rect_to_edges and utils.line_to_edge, as obj_to_edges calls them. *)
(* Coordinates are floating-point numbers of MantBits bits.                *)
(***************************************************************************)
MaxObjXY == 2      \* coordinates of generated rects and lines: 0..MaxObjXY, and 66

rect_to_edges(rect) ==
    LET top == Updated(rect,
                   [object_type |-> "rect_edge", height |-> 0, y0 |-> rect.y1,
                    bottom |-> rect.top, orientation |-> "h"])
        bottom == Updated(rect,
                   [object_type |-> "rect_edge", height |-> 0, y1 |-> rect.y0,
                    top |-> FlAdd(rect.top, rect.height),
                    doctop |-> FlAdd(rect.doctop, rect.height),
                    orientation |-> "h"])
        left == Updated(rect,
                   [object_type |-> "rect_edge", width |-> 0, x1 |-> rect.x0,
                    orientation |-> "v"])
        right == Updated(rect,
                   [object_type |-> "rect_edge", width |-> 0, x0 |-> rect.x1,
                    orientation |-> "v"])
    IN  <<top, bottom, left, right>>

line_to_edge(line) ==
    Updated(line, [orientation |-> IF line.top = line.bottom THEN "h" ELSE "v"])

\* obj_to_edges on a rect
RectToEdges ==
    /\ eg_pc = "start" /\ eg_obj.object_type = "rect"
    /\ eg_edges' = rect_to_edges(eg_obj)
    /\ eg_pc' = "done"
    /\ UNCHANGED eg_obj
    /\ UNCHANGED notEg

\* obj_to_edges on a line
LineToEdge ==
    /\ eg_pc = "start" /\ eg_obj.object_type = "line"
    /\ eg_edges' = <<line_to_edge(eg_obj)>>
    /\ eg_pc' = "done"
    /\ UNCHANGED eg_obj
    /\ UNCHANGED notEg

(***************************************************************************)
(* Specification of one call of obj_to_edges.  An object of a page of      *)
(* height 128 has its bbox, its width and height, and y0 and y1 measured   *)
(* from the bottom of the page; the bbox of a line that is neither         *)
(* horizontal nor vertical has a width and a height.                       *)
(***************************************************************************)
ObjCoords == (0..MaxObjXY) \cup {66}

PageObject(type, x0, top, x1, bottom) ==
    [object_type |-> type, x0 |-> x0, top |-> top, x1 |-> x1, bottom |-> bottom,
     doctop |-> top, width |-> FlSub(x1, x0), height |-> FlSub(bottom, top),
     y0 |-> FlSub(128, bottom), y1 |-> FlSub(128, top)]

PageObjects ==
    {PageObject(type, b[1], b[2], b[3], b[4]) :
        type \in {"rect", "line"},
        b \in {c \in ObjCoords \X ObjCoords \X ObjCoords \X ObjCoords :
                  c[1] <= c[3] /\ c[2] <= c[4]}}

ToEdgesInit ==
    /\ IdleButToEdges
    /\ eg_obj \in PageObjects
    /\ eg_edges = <<>> /\ eg_pc = "start"

ToEdgesNext == RectToEdges \/ LineToEdge

SpecToEdges == ToEdgesInit /\ [][ToEdgesNext]_vars

\* the Edge invariant: a horizontal edge has top = bottom, a vertical edge
\* has x0 = x1
EdgeInvariant(edge) ==
    /\ edge.orientation \in {"h", "v"}
    /\ edge.orientation = "h" => edge.top = edge.bottom
    /\ edge.orientation = "v" => edge.x0 = edge.x1

\* rect_to_edges yields four edges, two horizontal of height 0 and two
\* vertical of width 0
FourRectEdges ==
    (eg_pc = "done" /\ eg_obj.object_type = "rect") =>
        /\ Len(eg_edges) = 4
        /\ Cardinality({k \in 1..4 : eg_edges[k].orientation = "h"
                                         /\ eg_edges[k].height = 0}) = 2
        /\ Cardinality({k \in 1..4 : eg_edges[k].orientation = "v"
                                         /\ eg_edges[k].width = 0}) = 2

\* C26: every edge derived from a rect or from a line satisfies the Edge
\* invariant: rect_to_edges yields four edges, two H of height 0 and two V
\* of width 0, and line_to_edge labels a line H only when top = bottom and
\* V only when x0 = x1.
C26_EdgeInvariant ==
    eg_pc = "done" =>
        /\ FourRectEdges
        /\ \A k \in 1..Len(eg_edges) : EdgeInvariant(eg_edges[k])

\* the edges of a rect whose height is exact satisfy the invariant
ExactRectEdges ==
    (eg_pc = "done" /\ eg_obj.object_type = "rect"
        /\ eg_obj.height = eg_obj.bottom - eg_obj.top) =>
        \A k \in 1..Len(eg_edges) : EdgeInvariant(eg_edges[k])

(***************************************************************************)
(* WordExtractor.iter_chars_to_words: one action for each branch of the    *)
(* body of its for loop, and one for what follows the loop.  A yielded     *)
(* word is appended to we_words.                                           *)
(***************************************************************************)
MaxChars == 3      \* number of chars in one iter_chars_to_words call

\* str.isspace() on the text of a char
isspace(text) == text \in {" ", "\t", "\n"}

\* variant of merge_bboxes that returns the last of the bboxes
merge_bboxes_Last(bboxes) == bboxes[Len(bboxes)]

merge_bboxes(bboxes) ==
    <<MinOf({bboxes[k][1] : k \in 1..Len(bboxes)}),
      MinOf({bboxes[k][2] : k \in 1..Len(bboxes)}),
      MaxOf({bboxes[k][3] : k \in 1..Len(bboxes)}),
      MaxOf({bboxes[k][4] : k \in 1..Len(bboxes)})>>

char_begins_new_word(current_chars, bbox, next_char) ==
    LET upright == current_chars[1].upright
        intraline_tol == IF upright THEN we_x_tolerance ELSE we_y_tolerance
        interline_tol == IF upright THEN we_y_tolerance ELSE we_x_tolerance
        word_x0 == bbox[1]
        word_top == bbox[2]
        word_x1 == bbox[3]
        word_bottom == bbox[4]
    IN  \/ next_char.x0 > FlAdd(word_x1, intraline_tol)
        \/ next_char.x1 < FlSub(word_x0, intraline_tol)
        \/ next_char.top > FlAdd(word_bottom, interline_tol)
        \/ next_char.bottom < FlSub(word_top, interline_tol)

NextChar == we_chars[we_i + 1]

words_unchanged ==
    UNCHANGED <<we_chars, we_x_tolerance, we_y_tolerance, keep_blank_chars>>

\* if not self.keep_blank_chars and char["text"].isspace()
WordsBlankChar ==
    /\ we_pc = "loop" /\ we_i < Len(we_chars)
    /\ ~ keep_blank_chars /\ isspace(NextChar.text)
    /\ IF current_word # <<>>
       THEN /\ we_words' = Append(we_words, current_word)
            /\ current_word' = <<>>
            /\ current_bbox' = None
       ELSE UNCHANGED <<we_words, current_word, current_bbox>>
    /\ we_i' = we_i + 1
    /\ UNCHANGED we_pc
    /\ words_unchanged
    /\ UNCHANGED notWe

\* elif current_word and self.char_begins_new_word(...)
WordsNewWord ==
    /\ we_pc = "loop" /\ we_i < Len(we_chars)
    /\ ~ (~ keep_blank_chars /\ isspace(NextChar.text))
    /\ current_word # <<>>
    /\ char_begins_new_word(current_word, current_bbox, NextChar)
    /\ we_words' = Append(we_words, current_word)
    /\ current_word' = <<NextChar>>
    /\ current_bbox' = obj_to_bbox(NextChar)
    /\ we_i' = we_i + 1
    /\ UNCHANGED we_pc
    /\ words_unchanged
    /\ UNCHANGED notWe

\* else
WordsAppendChar ==
    /\ we_pc = "loop" /\ we_i < Len(we_chars)
    /\ ~ (~ keep_blank_chars /\ isspace(NextChar.text))
    /\ ~ (current_word # <<>>
            /\ char_begins_new_word(current_word, current_bbox, NextChar))
    /\ current_word' = Append(current_word, NextChar)
    /\ current_bbox' = IF current_bbox = None
                       THEN obj_to_bbox(NextChar)
                       ELSE merge_bboxes(<<current_bbox, obj_to_bbox(NextChar)>>)
    /\ we_i' = we_i + 1
    /\ UNCHANGED <<we_words, we_pc>>
    /\ words_unchanged
    /\ UNCHANGED notWe

\* after the loop: if current_word: yield current_word
WordsFinish ==
    /\ we_pc = "loop" /\ we_i = Len(we_chars)
    /\ we_words' = IF current_word # <<>> THEN Append(we_words, current_word)
                   ELSE we_words
    /\ we_pc' = "done"
    /\ UNCHANGED <<we_i, current_word, current_bbox>>
    /\ words_unchanged
    /\ UNCHANGED notWe

(***************************************************************************)
(* Specification of one call of iter_chars_to_words.  The chars of a call  *)
(* have the same upright (iter_extract groups them by it); each is 1 wide  *)
(* and 1 high, at one of four places: two that touch, one a unit further   *)
(* on the same line, one on the line below.                                *)
(***************************************************************************)
CharPlaces == {<<0, 0>>, <<1, 0>>, <<3, 0>>, <<0, 2>>}

WordChar(text, place, upright) ==
    [text |-> text, x0 |-> place[1], top |-> place[2], x1 |-> place[1] + 1,
     bottom |-> place[2] + 1, upright |-> upright]

WordChars(upright) ==
    {WordChar(text, place, upright) : text \in {"a", " "}, place \in CharPlaces}

WordsInit ==
    /\ IdleButWords
    /\ \E upright \in BOOLEAN :
          we_chars \in UNION {[1..n -> WordChars(upright)] : n \in 0..MaxChars}
    /\ we_x_tolerance \in {0, 1} /\ we_y_tolerance = 0
    /\ keep_blank_chars \in BOOLEAN
    /\ we_i = 0 /\ current_word = <<>> /\ current_bbox = None
    /\ we_words = <<>> /\ we_pc = "loop"

WordsNext == WordsBlankChar \/ WordsNewWord \/ WordsAppendChar \/ WordsFinish

SpecWords == WordsInit /\ [][WordsNext]_vars

\* the concatenation of a list of lists
RECURSIVE Concat(_)
Concat(ls) == IF ls = <<>> THEN <<>> ELSE ls[1] \o Concat(SubSeq(ls, 2, Len(ls)))

\* the chars processed so far
Processed == SubSeq(we_chars, 1, we_i)

\* the words yielded so far and, while the loop runs, the current word
WordsSoFar == IF we_pc = "done" THEN we_words ELSE Append(we_words, current_word)

\* C27: with keep_blank_chars false, a whitespace char ends the current
\* word and belongs to no word, every other char belongs to exactly one
\* word, no yielded word is empty, and the yielded words, concatenated, are
\* the input without its whitespace chars; at every point of the iteration
\* the tracked bbox is None exactly when the current word is empty, and is
\* otherwise the bbox of the chars of the current word.
C27_CharsToWords ==
    (we_pc \in {"loop", "done"} /\ ~ keep_blank_chars) =>
        /\ (we_i > 0 /\ isspace(we_chars[we_i].text)) => current_word = <<>>
        /\ \A w \in 1..Len(WordsSoFar) :
              \A k \in 1..Len(WordsSoFar[w]) : ~ isspace(WordsSoFar[w][k].text)
        /\ Concat(WordsSoFar) = SelectSeq(Processed, LAMBDA c : ~ isspace(c.text))
        /\ \A w \in 1..Len(we_words) : we_words[w] # <<>>
        /\ current_bbox = None <=> current_word = <<>>
        /\ current_word # <<>> => current_bbox = objects_to_bbox(current_word)

\* a call that has returned two words from chars that touch and have a
\* whitespace char between them
C27_Witness ==
    /\ we_pc = "done" /\ ~ keep_blank_chars
    /\ Len(we_words) = 2
    /\ \E k \in 2..(Len(we_chars) - 1) :
          /\ isspace(we_chars[k].text)
          /\ ~ isspace(we_chars[k - 1].text) /\ ~ isspace(we_chars[k + 1].text)
          /\ we_chars[k - 1].x1 = we_chars[k + 1].x0
          /\ we_chars[k - 1].top = we_chars[k + 1].top

(***************************************************************************)
(* utils.get_overlapped_bboxes_pairs: the events are sorted by             *)
(* (x, -kind), so that at the same x an exit comes before an enter; active *)
(* entries are (idx, y1, y2) and the test is on y alone.                   *)
(***************************************************************************)
UtilsEventKeyLeq(a, b) == a[2] < b[2] \/ (a[2] = b[2] /\ 0 - a[4] <= 0 - b[4])

RECURSIVE SortUtilsEvents(_)
SortUtilsEvents(s) ==
    IF s = <<>> THEN <<>>
    ELSE LET r == SortUtilsEvents(SubSeq(s, 1, Len(s) - 1))
             e == s[Len(s)]
             k == Cardinality({j \in 1..Len(r) : UtilsEventKeyLeq(r[j], e)})
         IN  SubSeq(r, 1, k) \o <<e>> \o SubSeq(r, k + 1, Len(r))

MakeUtilsEvents(l1, l2) ==
    SortUtilsEvents(BoxEvents("box1", l1, 1) \o BoxEvents("box2", l2, 1))

UtilsEntry(l, idx) == <<idx, l[idx + 1][2], l[idx + 1][4]>>

\* test of lines 818 / 828 on two active entries e1 (list 1), e2 (list 2)
UtilsHit(e1, e2) == e2[2] < e1[3] /\ e2[3] > e1[2]

UtilsBox1Enter ==
    /\ ov_fn = "utils" /\ ov_pc = "loop" /\ ev_i < Len(bbox_events)
    /\ CurEvent[1] = "box1" /\ CurEvent[4] = 0
    /\ LET me == UtilsEntry(bbox_list1, CurEvent[3])
       IN  /\ bbox1_sweeping' = Append(bbox1_sweeping, me)
           /\ LET sel == SelectSeq(bbox2_sweeping, LAMBDA b2 : UtilsHit(me, b2))
              IN  overlap_list' = overlap_list \o [k \in 1..Len(sel) |-> <<me[1], sel[k][1]>>]
    /\ ev_i' = ev_i + 1
    /\ UNCHANGED <<ov_fn, bbox_list1, bbox_list2, bbox_events, bbox2_sweeping, ov_pc>>
    /\ UNCHANGED notOv

\* list.remove raises ValueError when the entry is not in the list
UtilsBox1Exit ==
    /\ ov_fn = "utils" /\ ov_pc = "loop" /\ ev_i < Len(bbox_events)
    /\ CurEvent[1] = "box1" /\ CurEvent[4] = 1
    /\ LET me == UtilsEntry(bbox_list1, CurEvent[3])
       IN  IF me \in Range(bbox1_sweeping)
           THEN /\ bbox1_sweeping' = RemoveFirst(bbox1_sweeping, me)
                /\ ev_i' = ev_i + 1
                /\ UNCHANGED ov_pc
           ELSE /\ ov_pc' = "ValueError"
                /\ UNCHANGED <<bbox1_sweeping, ev_i>>
    /\ UNCHANGED <<ov_fn, bbox_list1, bbox_list2, bbox_events, bbox2_sweeping, overlap_list>>
    /\ UNCHANGED notOv

UtilsBox2Enter ==
    /\ ov_fn = "utils" /\ ov_pc = "loop" /\ ev_i < Len(bbox_events)
    /\ CurEvent[1] = "box2" /\ CurEvent[4] = 0
    /\ LET me == UtilsEntry(bbox_list2, CurEvent[3])
       IN  /\ bbox2_sweeping' = Append(bbox2_sweeping, me)
           /\ LET sel == SelectSeq(bbox1_sweeping, LAMBDA b1 : UtilsHit(b1, me))
              IN  overlap_list' = overlap_list \o [k \in 1..Len(sel) |-> <<sel[k][1], me[1]>>]
    /\ ev_i' = ev_i + 1
    /\ UNCHANGED <<ov_fn, bbox_list1, bbox_list2, bbox_events, bbox1_sweeping, ov_pc>>
    /\ UNCHANGED notOv

UtilsBox2Exit ==
    /\ ov_fn = "utils" /\ ov_pc = "loop" /\ ev_i < Len(bbox_events)
    /\ CurEvent[1] = "box2" /\ CurEvent[4] = 1
    /\ LET me == UtilsEntry(bbox_list2, CurEvent[3])
       IN  IF me \in Range(bbox2_sweeping)
           THEN /\ bbox2_sweeping' = RemoveFirst(bbox2_sweeping, me)
                /\ ev_i' = ev_i + 1
                /\ UNCHANGED ov_pc
           ELSE /\ ov_pc' = "ValueError"
                /\ UNCHANGED <<bbox2_sweeping, ev_i>>
    /\ UNCHANGED <<ov_fn, bbox_list1, bbox_list2, bbox_events, bbox1_sweeping, overlap_list>>
    /\ UNCHANGED notOv

\* after the loop: assert len(bbox1_sweeping) == 0, then return overlap_list
UtilsReturn ==
    /\ ov_fn = "utils" /\ ov_pc = "loop" /\ ev_i = Len(bbox_events)
    /\ ov_pc' = IF Len(bbox1_sweeping) = 0 THEN "done" ELSE "AssertionError"
    /\ UNCHANGED <<ov_fn, bbox_list1, bbox_list2, bbox_events, ev_i,
                   bbox1_sweeping, bbox2_sweeping, overlap_list>>
    /\ UNCHANGED notOv

(***************************************************************************)
(* Specification of one call of either function named                      *)
(* get_overlapped_bboxes_pairs, on the lists of the overlap specification. *)
(***************************************************************************)
SweepInit ==
    /\ ov_fn \in {"pairs", "utils"}
    /\ \E p \in OverlapInputs :
          /\ bbox_list1 = p[1]
          /\ bbox_list2 = p[2]
          /\ bbox_events = IF ov_fn = "pairs" THEN MakeEvents(p[1], p[2])
                           ELSE MakeUtilsEvents(p[1], p[2])
    /\ ev_i = 0
    /\ bbox1_sweeping = <<>>
    /\ bbox2_sweeping = <<>>
    /\ overlap_list = <<>>
    /\ ov_pc = "loop"
    /\ IdleButOverlap

SweepNext ==
    \/ PairsBox1Enter \/ PairsBox1Exit \/ PairsBox2Enter \/ PairsBox2Exit
    \/ PairsReturn
    \/ UtilsBox1Enter \/ UtilsBox1Exit \/ UtilsBox2Enter \/ UtilsBox2Exit
    \/ UtilsReturn

SpecSweep == SweepInit /\ [][SweepNext]_vars

\* the indices of the boxes of a list whose enter event is among the
\* events processed so far and whose exit event is not
Between(tag) ==
    {bbox_events[k][3] : k \in {j \in 1..ev_i : bbox_events[j][1] = tag /\ bbox_events[j][4] = 0}}
    \ {bbox_events[k][3] : k \in {j \in 1..ev_i : bbox_events[j][1] = tag /\ bbox_events[j][4] = 1}}

\* the indices of the boxes in an active list
ActiveIn(sweeping) == {sweeping[k][1] : k \in 1..Len(sweeping)}

\* C29: in both functions named get_overlapped_bboxes_pairs, on boxes with
\* x0 <= x1 (zero-width boxes included), no exit event finds its box
\* missing from the active list, a box is active exactly between its enter
\* event and its exit event, both active lists are empty after the last
\* event, and the call returns without ValueError or AssertionError.
C29_SweepActiveSets ==
    ov_fn \in {"pairs", "utils"} =>
        /\ ov_pc \notin {"ValueError", "AssertionError"}
        /\ ActiveIn(bbox1_sweeping) = Between("box1")
        /\ ActiveIn(bbox2_sweeping) = Between("box2")
        /\ ev_i = Len(bbox_events) => bbox1_sweeping = <<>> /\ bbox2_sweeping = <<>>

\* the function of table_filtering_utils alone satisfies C29
SweepOfFilteringUtils == ov_fn = "pairs" => C29_SweepActiveSets

\* so does the function of utils on boxes of positive width
SweepOfUtilsPositiveWidth ==
    (ov_fn = "utils" /\ \A b \in Range(bbox_list1) \cup Range(bbox_list2) : b[1] < b[3])
        => C29_SweepActiveSets

(***************************************************************************)
(* Properties of the assignment of chars to cells in Table.extract.        *)
(***************************************************************************)
\* no two cells of the table share any area
AreaDisjoint(table) ==
    \A a, b \in 1..Len(table.cells) :
        a # b => ~NaiveHit(table.cells[a], table.cells[b])

\* the places <<row, column>> of the cells of a table
CellPlaces(rows) ==
    UNION {{<<i, j>> : j \in {c \in 1..Len(rows[i].cells) : rows[i].cells[c] # None}} :
              i \in 1..Len(rows)}

\* the places of the cells that extract puts a char in
PlacesOf(char, rows) ==
    {p \in CellPlaces(rows) :
        char \in Range(cell_chars(row_chars(tf_page.chars, rows[p[1]]),
                                  rows[p[1]].cells[p[2]]))}

\* twice the midpoint of the char lies on the line x between two cells that
\* lie side by side, or on the line y between two cells one above the other
OnSharedBorder(char, first, second) ==
    \/ /\ first[3] = second[1]
       /\ char.x0 + char.x1 = 2 * second[1]
       /\ 2 * second[2] <= char.top + char.bottom
       /\ char.top + char.bottom < 2 * second[4]
       /\ 2 * first[2] <= char.top + char.bottom
       /\ char.top + char.bottom < 2 * first[4]
    \/ /\ first[4] = second[2]
       /\ char.top + char.bottom = 2 * second[2]
       /\ 2 * second[1] <= char.x0 + char.x1
       /\ char.x0 + char.x1 < 2 * second[3]
       /\ 2 * first[1] <= char.x0 + char.x1
       /\ char.x0 + char.x1 < 2 * first[3]

HalfOpenAssignment(t) ==
    LET rows == tf_rows[t]
    IN  \A k \in 1..Len(tf_page.chars) :
            LET char == tf_page.chars[k]
            IN  /\ Cardinality(PlacesOf(char, rows)) <= 1
                /\ \A p \in PlacesOf(char, rows) :
                      /\ MidpointIn(char, rows[p[1]].cells[p[2]])
                      /\ MidpointIn(char, rows[p[1]].bbox)
                /\ \A p, q \in CellPlaces(rows) :
                      OnSharedBorder(char, rows[p[1]].cells[p[2]],
                                     rows[q[1]].cells[q[2]])
                          => /\ q \in PlacesOf(char, rows)
                             /\ p \notin PlacesOf(char, rows)

\* C30: in Table.extract, for a table whose cells do not overlap in area,
\* every char of the page is assigned to at most one cell; the midpoint test
\* is half-open, so a char whose midpoint lies on the border shared by two
\* adjacent cells goes only to the right or lower one, and a char assigned
\* to a cell has its midpoint inside the bbox of the row of that cell.
C30_HalfOpenMidpoint ==
    tf_pc = "extracted" =>
        \A t \in 1..Len(tf_tables) :
            AreaDisjoint(tf_tables[t]) => HalfOpenAssignment(t)

\* extract has run on a table of disjoint cells and put a char whose
\* midpoint lies on the line between two cells side by side in the right
\* one, and one on the line between two cells one above the other in the
\* lower one
C30_Witness ==
    /\ tf_pc = "extracted"
    /\ \E t \in 1..Len(tf_tables) :
          /\ AreaDisjoint(tf_tables[t])
          /\ \E p, q \in CellPlaces(tf_rows[t]) :
                \E c, d \in Range(tf_page.chars) :
                    LET first == tf_rows[t][p[1]].cells[p[2]]
                        right == tf_rows[t][q[1]].cells[q[2]]
                    IN  /\ p[1] = q[1]
                        /\ first[3] = right[1]
                        /\ OnSharedBorder(c, first, right)
                        /\ PlacesOf(c, tf_rows[t]) = {q}
                        /\ \E r \in CellPlaces(tf_rows[t]) :
                              /\ r[1] = p[1] + 1
                              /\ OnSharedBorder(d, first,
                                     tf_rows[t][r[1]].cells[r[2]])
                              /\ first[4] = tf_rows[t][r[1]].cells[r[2]][2]
                              /\ PlacesOf(d, tf_rows[t]) = {r}

====
